---- MODULE Spec2Model ----
(***************************************************************************)
(* A model of the Standard MIDI File codec of yalue/midi: the variable     *)
(* length integer codec (midi.go), the message codec with running status   *)
(* (midi.go) and the track and file codecs (smf_file.go).                  *)
(*                                                                         *)
(* Bytes are the integers 0..255.  Go's uint32 values are modelled by      *)
(* naturals below 2^31, the largest range TLC's integers hold; the places  *)
(* where a wider value could arise are marked.                             *)
(***************************************************************************)
EXTENDS Integers, Sequences, FiniteSets, TLC

VARIABLES
    pc,        \* position of the running program
    r,         \* the input stream (a bytes.Reader): [s: bytes, i: offset]
    output,    \* the output stream (a bytes.Buffer): the bytes written
    written,   \* VarInt harness: the integers written so far, with offsets
    got,       \* VarInt harness: the integers read so far
    last,      \* VarInt harness: the last call and what it returned
    smf,       \* the SMFFile in memory (toReturn of ParseSMFFile, f of WriteToFile)
    header,    \* the SMFHeader that ParseSMFFile read
    ti,        \* the index i of the track loop of ParseSMFFile and WriteToFile
    trk,       \* the locals of parseSMFTrack
    enc,       \* the locals of SMFTrack.WriteToFile
    step,      \* the last event decoded or encoded and what the call returned
    err,       \* the error that ParseSMFFile or WriteToFile returned
    canon,     \* the events decoded so far leave out the status byte exactly
               \* when it repeats the running status
    reparsed   \* the files decoded again from encoded bytes

varintVars == <<written, got, last>>
codecVars == <<smf, header, ti, trk, enc, step, err, canon, reparsed>>
vars == <<pc, r, output, written, got, last, smf, header, ti, trk, enc, step,
          err, canon, reparsed>>

(***************************************************************************)
(* Bit operations on naturals, as Go computes them on unsigned integers.   *)
(***************************************************************************)
RECURSIVE BitAnd(_, _)
BitAnd(a, b) ==
    IF a = 0 \/ b = 0 THEN 0
    ELSE 2 * BitAnd(a \div 2, b \div 2) + ((a % 2) * (b % 2))

RECURSIVE BitOr(_, _)
BitOr(a, b) ==
    IF a = 0 THEN b
    ELSE IF b = 0 THEN a
    ELSE 2 * BitOr(a \div 2, b \div 2)
         + (IF (a % 2) + (b % 2) > 0 THEN 1 ELSE 0)

\* uint32(x) << 7: the bits shifted out of the 32-bit word are dropped.
Shl7(x) == (x % 33554432) * 128

\* x >> 7
Shr7(x) == x \div 128

Min(a, b) == IF a < b THEN a ELSE b

(***************************************************************************)
(* Errors.  A Go error is modelled by its message; fmt.Errorf wraps an     *)
(* error into a new one, which is never equal to io.EOF.                   *)
(***************************************************************************)
Nil == "nil"
EOF == "EOF"

(***************************************************************************)
(* Readers.  A bytes.Reader is [s, i]; N is the byte budget that an        *)
(* io.LimitedReader put around it leaves (NoLimit when there is none).     *)
(***************************************************************************)
NoLimit == -1

NewReader(s) == [s |-> s, i |-> 0, N |-> NoLimit]

\* bytes.Reader.Read into a buffer of k bytes: at the end of the data it
\* returns (0, io.EOF), otherwise it copies what there is, up to k bytes.
BytesRead(rd, k) ==
    IF rd.i >= Len(rd.s)
    THEN [n |-> 0, e |-> EOF, data |-> <<>>, r |-> rd]
    ELSE LET Copied(n) == [n |-> n, e |-> Nil,
                           data |-> SubSeq(rd.s, rd.i + 1, rd.i + n),
                           r |-> [rd EXCEPT !.i = rd.i + n]]
         IN  Copied(Min(k, Len(rd.s) - rd.i))

\* A variant that reads without regard to the budget.
ReadMut(rd, k) == BytesRead(rd, k)

\* io.LimitedReader.Read: EOF once the budget is used up, otherwise a read
\* of at most N bytes from the underlying reader.
Read(rd, k) ==
    IF rd.N = NoLimit THEN BytesRead(rd, k)
    ELSE IF rd.N <= 0
    THEN [n |-> 0, e |-> EOF, data |-> <<>>, r |-> rd]
    ELSE LET Charged(res) == [res EXCEPT !.r = [res.r EXCEPT !.N = rd.N - res.n]]
         IN  Charged(BytesRead(rd, Min(k, rd.N)))

\* readByte: the byte read (0 when nothing was read) and Read's error.
readByte(rd) ==
    LET Byte(res) ==
          [b |-> IF res.n = 1 THEN res.data[1] ELSE 0, e |-> res.e, r |-> res.r]
    IN  Byte(Read(rd, 1))

(***************************************************************************)
(* ReadVariableInt.                                                        *)
(***************************************************************************)
\* The error returned when readByte fails on byte i of the integer.
ReadVariableIntErrorMut(i, e) == e

ReadVariableIntError(i, e) ==
    IF i = 0 THEN e ELSE "Failed reading full integer"

\* The number of bytes the loop reads at most.
VarIntLoopCount == 4

\* What the loop returns when byte 4 still has its top bit set; acc is the
\* value accumulated from the four bytes.
FourthByteResultMut(acc, rd) == [val |-> acc, e |-> Nil, r |-> rd]

FourthByteResult(acc, rd) ==
    [val |-> 0, e |-> "Invalid variable-length integer", r |-> rd]

\* The loop body from iteration i on, with toReturn as accumulated so far.
RECURSIVE ReadVariableIntLoop(_, _, _)
ReadVariableIntLoop(rd, i, toReturn) ==
    IF i >= VarIntLoopCount
    THEN [val |-> toReturn, e |-> Nil, r |-> rd]
    ELSE
      LET With_rb(rb) ==
      IF rb.e # Nil
      THEN [val |-> 0, e |-> ReadVariableIntError(i, rb.e), r |-> rb.r]
      ELSE
        LET With_acc(acc) ==
        IF BitAnd(rb.b, \h80) = 0
        THEN [val |-> acc, e |-> Nil, r |-> rb.r]
        ELSE IF i = 3
        \* the code shifts before this test; the shifted value is dropped
        THEN FourthByteResult(acc, rb.r)
        ELSE ReadVariableIntLoop(rb.r, i + 1, Shl7(acc))
        IN  With_acc(BitOr(toReturn, BitAnd(rb.b, \h7F)))
      IN  With_rb(readByte(rd))

ReadVariableInt(rd) == ReadVariableIntLoop(rd, 0, 0)

(***************************************************************************)
(* WriteVariableInt.                                                       *)
(***************************************************************************)
\* The largest integer the format holds.
MaxVariableInt == \h0FFFFFFF

IsTooLargeMut(n) == n > \h1FFFFFFF

IsTooLarge(n) == n > MaxVariableInt

\* toWrite: the 7-bit chunks of n, least significant first.
SevenBitChunksMut(n) ==
    IF n = 0 THEN <<>>
    ELSE <<n % 128, (n \div 128) % 128, (n \div 16384) % 128,
           (n \div 2097152) % 128>>

RECURSIVE SevenBitChunks(_)
SevenBitChunks(n) ==
    IF n = 0 THEN <<>>
    ELSE <<BitAnd(n, \h7F)>> \o SevenBitChunks(Shr7(n))

\* reversed: toWrite in reverse order, the top bit set on all but the last.
ReversedMut(toWrite) ==
    [j \in 1..Len(toWrite) |->
        LET i == Len(toWrite) - j
        IN  IF i # Len(toWrite) - 1 THEN BitOr(toWrite[i + 1], \h80)
            ELSE toWrite[i + 1]]

Reversed(toWrite) ==
    [j \in 1..Len(toWrite) |->
        LET i == Len(toWrite) - j
        IN  IF i # 0 THEN BitOr(toWrite[i + 1], \h80) ELSE toWrite[i + 1]]

\* The buffer w after the call, and the error returned.
WriteVariableInt(w, n) ==
    IF IsTooLarge(n)
    THEN [w |-> w, e |-> "Integer is too large for a MIDI int"]
    ELSE LET w1 == IF n = 0 THEN w \o <<0>> ELSE w
         IN  [w |-> w1 \o Reversed(SevenBitChunks(n)), e |-> Nil]

(***************************************************************************)
(* Messages.  A MIDIMessage is a record whose type field names the Go      *)
(* type and whose other fields are that type's fields (uint8 fields hold   *)
(* 0..255, PitchBendEvent.Value is a uint16).                              *)
(***************************************************************************)
NoMessage == [type |-> "nil"]

ChannelTypes ==
    {"NoteOff", "NoteOn", "Aftertouch", "ControlChange", "ProgramChange",
     "ChannelPressure", "PitchBend"}

\* The result of an SMFData call: the bytes, the error and the running
\* status the call leaves.
SMFBytes(bytes, rs) == [bytes |-> bytes, e |-> Nil, rs |-> rs]
SMFError(e, rs) == [bytes |-> <<>>, e |-> e, rs |-> rs]

\* The end of every channel message's SMFData: the status byte is left out
\* when it equals the running status, otherwise it becomes the running
\* status and is written.
WithRunningStatusMut(status, data, runningStatus) ==
    SMFBytes(<<status>> \o data, status)

WithRunningStatus(status, data, runningStatus) ==
    IF status = runningStatus
    THEN SMFBytes(data, runningStatus)
    ELSE SMFBytes(<<status>> \o data, status)

NoteOffEvent_SMFData(v, runningStatus) ==
    IF v.Channel > \h0F THEN SMFError("Invalid note-off channel", runningStatus)
    ELSE IF v.Note > \h7F THEN SMFError("Invalid note-off note", runningStatus)
    ELSE IF v.Velocity > \h7F
    THEN SMFError("Invalid note-off velocity", runningStatus)
    ELSE WithRunningStatus(BitOr(\h80, v.Channel), <<v.Note, v.Velocity>>,
                           runningStatus)

NoteOnEvent_SMFDataMut(v, runningStatus) ==
    IF v.Channel > \h0F THEN SMFError("Invalid note-on channel", runningStatus)
    ELSE IF v.Note > \h7F THEN SMFError("Invalid note-on note", runningStatus)
    ELSE WithRunningStatus(BitOr(\h90, v.Channel), <<v.Note, v.Velocity>>,
                           runningStatus)

NoteOnEvent_SMFData(v, runningStatus) ==
    IF v.Channel > \h0F THEN SMFError("Invalid note-on channel", runningStatus)
    ELSE IF v.Note > \h7F THEN SMFError("Invalid note-on note", runningStatus)
    ELSE IF v.Velocity > \h7F
    THEN SMFError("Invalid note-on velocity", runningStatus)
    ELSE WithRunningStatus(BitOr(\h90, v.Channel), <<v.Note, v.Velocity>>,
                           runningStatus)

AftertouchEvent_SMFData(v, runningStatus) ==
    IF v.Channel > \h0F THEN SMFError("Invalid aftertouch channel", runningStatus)
    ELSE IF v.Note > \h7F THEN SMFError("Invalid aftertouch note", runningStatus)
    ELSE IF v.Pressure > \h7F
    THEN SMFError("Invalid aftertouch pressure", runningStatus)
    ELSE WithRunningStatus(BitOr(\hA0, v.Channel), <<v.Note, v.Pressure>>,
                           runningStatus)

ControlChangeEvent_SMFData(v, runningStatus) ==
    IF v.Channel > \h0F
    THEN SMFError("Invalid control-change channel", runningStatus)
    ELSE IF v.ControllerNumber > \h7F
    THEN SMFError("Invalid control-change controller", runningStatus)
    ELSE IF v.Value > \h7F
    THEN SMFError("Invalid control-change value", runningStatus)
    ELSE WithRunningStatus(BitOr(\hB0, v.Channel),
                           <<v.ControllerNumber, v.Value>>, runningStatus)

ProgramChangeEvent_SMFData(v, runningStatus) ==
    IF v.Channel > \h0F
    THEN SMFError("Invalid program-change channel", runningStatus)
    ELSE IF v.Value > \h7F
    THEN SMFError("Invalid program-change value", runningStatus)
    ELSE WithRunningStatus(BitOr(\hC0, v.Channel), <<v.Value>>, runningStatus)

ChannelPressureEvent_SMFData(v, runningStatus) ==
    IF v.Channel > \h0F
    THEN SMFError("Bad channel-pressure channel", runningStatus)
    ELSE IF v.Value > \h7F
    THEN SMFError("Bad channel-pressure value", runningStatus)
    ELSE WithRunningStatus(BitOr(\hD0, v.Channel), <<v.Value>>, runningStatus)

PitchBendEvent_SMFData(v, runningStatus) ==
    IF v.Channel > \h0F THEN SMFError("Invalid pitch-bend channel", runningStatus)
    ELSE IF v.Value > \h3FFF
    THEN SMFError("Invalid pitch-bend value", runningStatus)
    ELSE LET lowBits == BitAnd(v.Value, \h7F)
             highBits == Shr7(v.Value)
         IN  WithRunningStatus(BitOr(\hE0, v.Channel), <<lowBits, highBits>>,
                               runningStatus)

\* SystemExclusiveMessage.SMFData: F0, the length of the data plus one, the
\* data and a closing F7.  The running status is cleared first.
SystemExclusiveMessage_SMFData(m, runningStatus) ==
    IF Len(m.DataBytes) + 1 > \h0FFFFFFF
    THEN SMFError("System exclusive message too big for SMF event", 0)
    ELSE LET With_w(w) ==
         IF w.e # Nil
         THEN SMFError("Failed formatting sysex message length", 0)
         ELSE SMFBytes(w.w \o m.DataBytes \o <<\hF7>>, 0)
         IN  With_w(WriteVariableInt(<<\hF0>>, Len(m.DataBytes) + 1))

\* formatMetaEventBytes: FF, the type, the length of the data, the data.
formatMetaEventBytes(eventType, data) ==
    LET With_w(w) ==
    IF w.e # Nil
    THEN [bytes |-> <<>>, e |-> "Failed writing meta-event length"]
    ELSE [bytes |-> w.w \o data, e |-> Nil]
    IN  With_w(WriteVariableInt(<<\hFF, eventType>>, Len(data)))

\* What every meta event's SMFData returns: the running status is cleared
\* and the formatted bytes, or the formatting error, are returned.
MetaSMFDataMut(eventType, data, runningStatus) ==
    LET Kept(f) == [bytes |-> f.bytes, e |-> f.e, rs |-> runningStatus]
    IN  Kept(formatMetaEventBytes(eventType, data))

MetaSMFData(eventType, data, runningStatus) ==
    LET Cleared(f) == [bytes |-> f.bytes, e |-> f.e, rs |-> 0]
    IN  Cleared(formatMetaEventBytes(eventType, data))

\* uint8(x) of an unsigned or signed integer x
Uint8(x) == x % 256

SetTempoMetaEvent_SMFData(m, runningStatus) ==
    IF m.t >= \hFFFFFF
    THEN SMFError("Got set tempo value that's over 24 bits", 0)
    ELSE MetaSMFData(\h51, <<Uint8(m.t \div 65536), Uint8(m.t \div 256),
                             Uint8(m.t)>>, runningStatus)

KeySignatureMetaEvent_SMFData(m, runningStatus) ==
    IF m.SharpOrFlatCount < -7 \/ m.SharpOrFlatCount > 7
    THEN SMFError("Bad sharp or flat count in key signature", 0)
    ELSE MetaSMFData(\h59, <<Uint8(m.SharpOrFlatCount),
                             IF m.IsMinor THEN 1 ELSE 0>>, runningStatus)

\* MIDIMessage.SMFData, dispatched on the message's Go type.
SMFData(m, runningStatus) ==
    CASE m.type = "NoteOff" -> NoteOffEvent_SMFData(m, runningStatus)
      [] m.type = "NoteOn" -> NoteOnEvent_SMFData(m, runningStatus)
      [] m.type = "Aftertouch" -> AftertouchEvent_SMFData(m, runningStatus)
      [] m.type = "ControlChange" -> ControlChangeEvent_SMFData(m, runningStatus)
      [] m.type = "ProgramChange" -> ProgramChangeEvent_SMFData(m, runningStatus)
      [] m.type = "ChannelPressure" ->
            ChannelPressureEvent_SMFData(m, runningStatus)
      [] m.type = "PitchBend" -> PitchBendEvent_SMFData(m, runningStatus)
      [] m.type = "SystemExclusive" ->
            SystemExclusiveMessage_SMFData(m, runningStatus)
      [] m.type = "GenericMeta" -> MetaSMFData(m.EventType, m.Data, runningStatus)
      [] m.type = "SequenceNumber" ->
            MetaSMFData(0, <<Uint8(m.n \div 256), Uint8(m.n)>>, runningStatus)
      [] m.type = "Text" -> MetaSMFData(m.TextEventType, m.Data, runningStatus)
      [] m.type = "ChannelPrefix" -> MetaSMFData(\h20, <<m.c>>, runningStatus)
      [] m.type = "EndOfTrack" -> MetaSMFData(\h2F, <<>>, runningStatus)
      [] m.type = "SetTempo" -> SetTempoMetaEvent_SMFData(m, runningStatus)
      [] m.type = "SMPTEOffset" ->
            MetaSMFData(\h54, <<m.Hours, m.Minutes, m.Seconds, m.Frames,
                                m.FractionalFrames>>, runningStatus)
      [] m.type = "TimeSignature" ->
            MetaSMFData(\h58, <<m.Numerator, m.Denominator,
                                m.ClocksPerMetronomeTick,
                                m.Notated32ndNotesPerQuarterNote>>,
                        runningStatus)
      [] m.type = "KeySignature" ->
            KeySignatureMetaEvent_SMFData(m, runningStatus)

(***************************************************************************)
(* Decoding messages.  A parse result is the message (NoMessage on an      *)
(* error), the error and the reader after the call.                        *)
(***************************************************************************)
Parsed(m, rd) == [msg |-> m, e |-> Nil, r |-> rd]
ParseError(e, rd) == [msg |-> NoMessage, e |-> e, r |-> rd]

\* A Go panic (an index out of range) ends the program.
Panic == "panic: index out of range"

\* make([]byte, length) filled by one r.Read call: the bytes Read returned,
\* the rest of the slice still zero.
Zeros(k) == [j \in 1..k |-> 0]
ReadInto(rd, length) ==
    LET Filled(res) ==
          [data |-> res.data \o Zeros(length - res.n), e |-> res.e, r |-> res.r]
    IN  Filled(Read(rd, length))

\* The first data byte of a channel message: firstByte itself under
\* running status, otherwise the next byte of the stream.
FirstDataByteMut(rd, firstByte) == readByte(rd)

FirstDataByte(rd, firstByte) ==
    IF firstByte <= \h7F
    THEN [b |-> firstByte, e |-> Nil, r |-> rd]
    ELSE readByte(rd)

\* The body shared by the parse functions of the channel messages with two
\* data bytes: both bytes are read and checked to be at most 0x7f.
TwoDataBytes(rd, firstByte) ==
    LET With_n(n) ==
    IF n.e # Nil THEN [a |-> 0, b |-> 0, e |-> "Failed reading data byte 1", r |-> n.r]
    ELSE IF n.b > \h7F
    THEN [a |-> 0, b |-> 0, e |-> "Invalid data byte 1", r |-> n.r]
    ELSE LET With_v(v) ==
         IF v.e # Nil
         THEN [a |-> 0, b |-> 0, e |-> "Failed reading data byte 2", r |-> v.r]
         ELSE IF v.b > \h7F
         THEN [a |-> 0, b |-> 0, e |-> "Invalid data byte 2", r |-> v.r]
         ELSE [a |-> n.b, b |-> v.b, e |-> Nil, r |-> v.r]
         IN  With_v(readByte(n.r))
    IN  With_n(FirstDataByte(rd, firstByte))

\* The body shared by the parse functions of the channel messages with one
\* data byte.
OneDataByte(rd, firstByte) ==
    LET With_v(v) ==
    IF v.e # Nil THEN [a |-> 0, e |-> "Failed reading data byte 1", r |-> v.r]
    ELSE IF v.b > \h7F THEN [a |-> 0, e |-> "Invalid data byte 1", r |-> v.r]
    ELSE [a |-> v.b, e |-> Nil, r |-> v.r]
    IN  With_v(FirstDataByte(rd, firstByte))

parseNoteOffEvent(rd, firstByte, channel) ==
    LET With_d(d) ==
    IF d.e # Nil THEN ParseError(d.e, d.r)
    ELSE Parsed([type |-> "NoteOff", Channel |-> channel, Note |-> d.a,
                 Velocity |-> d.b], d.r)
    IN  With_d(TwoDataBytes(rd, firstByte))

parseNoteOnEvent(rd, firstByte, channel) ==
    LET With_d(d) ==
    IF d.e # Nil THEN ParseError(d.e, d.r)
    ELSE Parsed([type |-> "NoteOn", Channel |-> channel, Note |-> d.a,
                 Velocity |-> d.b], d.r)
    IN  With_d(TwoDataBytes(rd, firstByte))

parseAftertouchEvent(rd, firstByte, channel) ==
    LET With_d(d) ==
    IF d.e # Nil THEN ParseError(d.e, d.r)
    ELSE Parsed([type |-> "Aftertouch", Channel |-> channel, Note |-> d.a,
                 Pressure |-> d.b], d.r)
    IN  With_d(TwoDataBytes(rd, firstByte))

parseControlChangeEvent(rd, firstByte, channel) ==
    LET With_d(d) ==
    IF d.e # Nil THEN ParseError(d.e, d.r)
    ELSE Parsed([type |-> "ControlChange", Channel |-> channel,
                 ControllerNumber |-> d.a, Value |-> d.b], d.r)
    IN  With_d(TwoDataBytes(rd, firstByte))

parseProgramChangeEvent(rd, firstByte, channel) ==
    LET With_d(d) ==
    IF d.e # Nil THEN ParseError(d.e, d.r)
    ELSE Parsed([type |-> "ProgramChange", Channel |-> channel,
                 Value |-> d.a], d.r)
    IN  With_d(OneDataByte(rd, firstByte))

parseChannelPressureEvent(rd, firstByte, channel) ==
    LET With_d(d) ==
    IF d.e # Nil THEN ParseError(d.e, d.r)
    ELSE Parsed([type |-> "ChannelPressure", Channel |-> channel,
                 Value |-> d.a], d.r)
    IN  With_d(OneDataByte(rd, firstByte))

parsePitchBendEvent(rd, firstByte, channel) ==
    LET With_d(d) ==
    IF d.e # Nil THEN ParseError(d.e, d.r)
    ELSE Parsed([type |-> "PitchBend", Channel |-> channel,
                 Value |-> BitOr(Shl7(d.b), d.a)], d.r)
    IN  With_d(TwoDataBytes(rd, firstByte))

\* parseSystemExclusiveMessage: the length, then the data in one Read; a
\* message begun by F0 must end with F7.  DataBytes is the data as read.
parseSystemExclusiveMessage(rd, firstByte) ==
    LET With_length(length) ==
    IF length.e # Nil
    THEN ParseError("Couldn't read SysEx message length", length.r)
    ELSE
      LET With_data(data) ==
      IF data.e # Nil
      THEN ParseError("Couldn't read SysEx message data", data.r)
      ELSE IF firstByte = \hF0 /\ Len(data.data) = 0
      THEN ParseError(Panic, data.r)
      ELSE IF firstByte = \hF0 /\ data.data[Len(data.data)] # \hF7
      THEN ParseError("SysEx message didn't end with 0xf7 byte", data.r)
      ELSE Parsed([type |-> "SystemExclusive", DataBytes |-> data.data],
                  data.r)
      IN  With_data(ReadInto(length.r, length.val))
    IN  With_length(ReadVariableInt(rd))

\* int8(b) of a byte b
Int8(b) == IF b >= 128 THEN b - 256 ELSE b

parseSequenceNumberMetaEvent(data) ==
    IF Len(data) # 2 THEN [msg |-> NoMessage, e |-> "Bad sequence number event size"]
    ELSE [msg |-> [type |-> "SequenceNumber",
                   n |-> BitOr(data[2], data[1] * 256)], e |-> Nil]

parseSetTempoMetaEvent(data) ==
    IF Len(data) # 3
    THEN [msg |-> NoMessage, e |-> "Expected 3 byte length for set tempo event"]
    ELSE [msg |-> [type |-> "SetTempo",
                   t |-> BitOr(BitOr(data[3], data[2] * 256), data[1] * 65536)],
          e |-> Nil]

parseSMPTEOffsetMetaEvent(data) ==
    IF Len(data) # 5
    THEN [msg |-> NoMessage, e |-> "Invalid SMPTE offset meta-event length"]
    ELSE [msg |-> [type |-> "SMPTEOffset", Hours |-> data[1],
                   Minutes |-> data[2], Seconds |-> data[3],
                   Frames |-> data[4], FractionalFrames |-> data[5]],
          e |-> Nil]

\* A variant that accepts a payload longer than four bytes.
parseTimeSignatureMetaEventMut(data) ==
    IF Len(data) < 4
    THEN [msg |-> NoMessage, e |-> "Bad time signature meta-event size"]
    ELSE [msg |-> [type |-> "TimeSignature", Numerator |-> data[1],
                   Denominator |-> data[2],
                   ClocksPerMetronomeTick |-> data[3],
                   Notated32ndNotesPerQuarterNote |-> data[4]],
          e |-> Nil]

parseTimeSignatureMetaEvent(data) ==
    IF Len(data) # 4
    THEN [msg |-> NoMessage, e |-> "Bad time signature meta-event size"]
    ELSE [msg |-> [type |-> "TimeSignature", Numerator |-> data[1],
                   Denominator |-> data[2],
                   ClocksPerMetronomeTick |-> data[3],
                   Notated32ndNotesPerQuarterNote |-> data[4]],
          e |-> Nil]

parseKeySignatureMetaEvent(data) ==
    IF Len(data) # 2
    THEN [msg |-> NoMessage, e |-> "Bad key signature meta-event size"]
    ELSE IF Int8(data[1]) < -7 \/ Int8(data[1]) > 7
    THEN [msg |-> NoMessage,
          e |-> "Bad number of sharps or flats in key signature"]
    ELSE IF data[2] > 1
    THEN [msg |-> NoMessage, e |-> "Invalid major/minor setting in key signature"]
    ELSE [msg |-> [type |-> "KeySignature",
                   SharpOrFlatCount |-> Int8(data[1]),
                   IsMinor |-> (data[2] = 1)],
          e |-> Nil]

\* parseMetaEvent: the type, the length, the data in one Read (no Read for
\* the length 0), then the parse function of the type.
parseMetaEvent(rd) ==
    LET With_eventType(eventType) ==
    IF eventType.e # Nil
    THEN ParseError("Failed reading meta-event type", eventType.r)
    ELSE
      LET With_eventLength(eventLength) ==
      IF eventLength.e # Nil
      THEN ParseError("Failed reading meta-event length", eventLength.r)
      ELSE
        LET With_rd2(rd2) ==
        LET eventData == rd2.data
            t == eventType.b
            With(res) == [msg |-> res.msg, e |-> res.e, r |-> rd2.r]
        IN
        IF rd2.e # Nil
        THEN ParseError("Failed reading meta-event data", rd2.r)
        ELSE IF t = \h00 THEN With(parseSequenceNumberMetaEvent(eventData))
        ELSE IF t >= \h01 /\ t <= \h0F
        THEN Parsed([type |-> "Text", TextEventType |-> t,
                     Data |-> eventData], rd2.r)
        ELSE IF t = \h20
        THEN IF eventLength.val # 1
             THEN ParseError("Bad channel prefix meta-event length", rd2.r)
             ELSE Parsed([type |-> "ChannelPrefix", c |-> eventData[1]], rd2.r)
        ELSE IF t = \h2F
        THEN IF eventLength.val # 0
             THEN ParseError("Bad end-of-track meta-event length", rd2.r)
             ELSE Parsed([type |-> "EndOfTrack"], rd2.r)
        ELSE IF t = \h51 THEN With(parseSetTempoMetaEvent(eventData))
        ELSE IF t = \h54 THEN With(parseSMPTEOffsetMetaEvent(eventData))
        ELSE IF t = \h58 THEN With(parseTimeSignatureMetaEvent(eventData))
        ELSE IF t = \h59 THEN With(parseKeySignatureMetaEvent(eventData))
        ELSE Parsed([type |-> "GenericMeta", EventType |-> t,
                     Data |-> eventData], rd2.r)
        IN  With_rd2(IF eventLength.val # 0
                     THEN ReadInto(eventLength.r, eventLength.val)
                     ELSE [data |-> <<>>, e |-> Nil, r |-> eventLength.r])
      IN  With_eventLength(ReadVariableInt(eventType.r))
    IN  With_eventType(readByte(rd))

\* A message result that also carries the running status the call leaves.
WithStatus(res, rs) == [msg |-> res.msg, e |-> res.e, r |-> res.r, rs |-> rs]

\* parseChannelMessage: a first byte that is no status byte stands under
\* the running status; a status byte becomes the running status.
parseChannelMessage(rd, firstByte, runningStatus) ==
    LET status == IF BitAnd(firstByte, \h80) = 0 THEN runningStatus
                  ELSE firstByte
        rs == IF BitAnd(firstByte, \h80) = 0 THEN runningStatus ELSE firstByte
        channel == BitAnd(status, \h0F)
        kind == BitAnd(status, \hF0)
    IN
    IF BitAnd(status, \h80) = 0
    THEN WithStatus(ParseError("Can't parse a channel message without a valid status or running status", rd), rs)
    ELSE IF kind = \h80 THEN WithStatus(parseNoteOffEvent(rd, firstByte, channel), rs)
    ELSE IF kind = \h90 THEN WithStatus(parseNoteOnEvent(rd, firstByte, channel), rs)
    ELSE IF kind = \hA0
    THEN WithStatus(parseAftertouchEvent(rd, firstByte, channel), rs)
    ELSE IF kind = \hB0
    THEN WithStatus(parseControlChangeEvent(rd, firstByte, channel), rs)
    ELSE IF kind = \hC0
    THEN WithStatus(parseProgramChangeEvent(rd, firstByte, channel), rs)
    ELSE IF kind = \hD0
    THEN WithStatus(parseChannelPressureEvent(rd, firstByte, channel), rs)
    ELSE IF kind = \hE0
    THEN WithStatus(parsePitchBendEvent(rd, firstByte, channel), rs)
    ELSE WithStatus(ParseError("Parsing MIDI channel message not yet implemented.", rd), rs)

\* ReadSMFMessage: sysex and meta events clear the running status; the
\* other bytes F1..FE are not supported.
ReadSMFMessageMut(rd, runningStatus) ==
    LET With_firstByte(firstByte) ==
    IF firstByte.e # Nil
    THEN WithStatus(ParseError("Failed reading start of MIDI message",
                               firstByte.r), runningStatus)
    ELSE IF firstByte.b = \hF0 \/ firstByte.b = \hF7
    THEN WithStatus(parseSystemExclusiveMessage(firstByte.r, firstByte.b), 0)
    ELSE IF firstByte.b = \hFF
    THEN WithStatus(parseMetaEvent(firstByte.r), runningStatus)
    ELSE IF BitAnd(firstByte.b, \hF0) = \hF0
    THEN WithStatus(ParseError("Status byte not yet supported", firstByte.r),
                    runningStatus)
    ELSE parseChannelMessage(firstByte.r, firstByte.b, runningStatus)
    IN  With_firstByte(readByte(rd))

ReadSMFMessageAnyMut(rd, runningStatus) ==
    LET With_firstByte(firstByte) ==
    IF firstByte.e # Nil
    THEN WithStatus(ParseError("Failed reading start of MIDI message",
                               firstByte.r), runningStatus)
    ELSE IF firstByte.b = \hFF
    THEN WithStatus(parseMetaEvent(firstByte.r), 0)
    ELSE IF BitAnd(firstByte.b, \hF0) = \hF0
    THEN WithStatus(parseSystemExclusiveMessage(firstByte.r, firstByte.b), 0)
    ELSE parseChannelMessage(firstByte.r, firstByte.b, runningStatus)
    IN  With_firstByte(readByte(rd))

ReadSMFMessage(rd, runningStatus) ==
    LET With_firstByte(firstByte) ==
    IF firstByte.e # Nil
    THEN WithStatus(ParseError("Failed reading start of MIDI message",
                               firstByte.r), runningStatus)
    ELSE IF firstByte.b = \hF0 \/ firstByte.b = \hF7
    THEN WithStatus(parseSystemExclusiveMessage(firstByte.r, firstByte.b), 0)
    ELSE IF firstByte.b = \hFF
    THEN WithStatus(parseMetaEvent(firstByte.r), 0)
    ELSE IF BitAnd(firstByte.b, \hF0) = \hF0
    THEN WithStatus(ParseError("Status byte not yet supported", firstByte.r),
                    runningStatus)
    ELSE parseChannelMessage(firstByte.r, firstByte.b, runningStatus)
    IN  With_firstByte(readByte(rd))

(***************************************************************************)
(* Chunks: big-endian integers and io.ReadFull, as encoding/binary uses    *)
(* them.                                                                   *)
(***************************************************************************)
BE16(b) == b[1] * 256 + b[2]
\* A length whose first byte is above 0x7F does not fit TLC's integers;
\* the inputs of the model stay below.
BE32(b) == ((b[1] * 256 + b[2]) * 256 + b[3]) * 256 + b[4]
PutBE16(n) == <<(n \div 256) % 256, n % 256>>
PutBE32(n) == <<(n \div 16777216) % 256, (n \div 65536) % 256,
               (n \div 256) % 256, n % 256>>

\* io.ReadFull of k bytes, as binary.Read calls it.
ReadFull(rd, k) ==
    LET With_avail(avail) ==
    IF avail >= k
    THEN [data |-> SubSeq(rd.s, rd.i + 1, rd.i + k), e |-> Nil,
          r |-> [rd EXCEPT !.i = rd.i + k]]
    ELSE [data |-> <<>>, e |-> IF avail <= 0 THEN EOF ELSE "unexpected EOF",
          r |-> [rd EXCEPT !.i = Len(rd.s)]]
    IN  With_avail(Len(rd.s) - rd.i)

MThd == <<\h4D, \h54, \h68, \h64>>
MTrk == <<\h4D, \h54, \h72, \h6B>>

(***************************************************************************)
(* Decoding a file: ParseSMFFile and parseSMFTrack.                        *)
(***************************************************************************)
NoFile == [Division |-> 0, Tracks |-> <<>>, isNil |-> TRUE]
NoHeader == [ChunkType |-> <<0, 0, 0, 0>>, ChunkSize |-> 0, Format |-> 0,
             TrackCount |-> 0, Division |-> 0]
NoError == [what |-> Nil, track |-> -1, event |-> -1, cause |-> Nil]

\* binary.Read(file, binary.BigEndian, &header): the 14 bytes of the header.
ReadHeaderOpMut(rd) ==
    LET With_res(res) ==
    IF res.e # Nil THEN [header |-> NoHeader, e |-> res.e, r |-> res.r]
    ELSE [header |-> [ChunkType |-> SubSeq(res.data, 1, 4),
                      ChunkSize |-> BE32(SubSeq(res.data, 5, 8)),
                      Format |-> BE16(SubSeq(res.data, 11, 12)),
                      TrackCount |-> BE16(SubSeq(res.data, 9, 10)),
                      Division |-> BE16(SubSeq(res.data, 13, 14))],
          e |-> Nil, r |-> res.r]
    IN  With_res(ReadFull(rd, 14))

ReadHeaderOp(rd) ==
    LET With_res(res) ==
    IF res.e # Nil THEN [header |-> NoHeader, e |-> res.e, r |-> res.r]
    ELSE [header |-> [ChunkType |-> SubSeq(res.data, 1, 4),
                      ChunkSize |-> BE32(SubSeq(res.data, 5, 8)),
                      Format |-> BE16(SubSeq(res.data, 9, 10)),
                      TrackCount |-> BE16(SubSeq(res.data, 11, 12)),
                      Division |-> BE16(SubSeq(res.data, 13, 14))],
          e |-> Nil, r |-> res.r]
    IN  With_res(ReadFull(rd, 14))

\* The locals of parseSMFTrack when its loop starts; prev holds the locals
\* the previous track's loop left.
NewTrackLocalsMut(prev) ==
    [messages |-> <<>>, timeDeltas |-> <<>>,
     runningStatus |-> prev.runningStatus, eventCount |-> 0]

NewTrackLocals(prev) ==
    [messages |-> <<>>, timeDeltas |-> <<>>, runningStatus |-> 0,
     eventCount |-> 0]

\* A variant that takes a chunk of any type for a track.
BeginTrackOpMut(rd) ==
    LET With_chunkType(chunkType) ==
    IF chunkType.e # Nil
    THEN [e |-> "Failed reading track's chunk type", r |-> chunkType.r]
    ELSE LET With_length(length) ==
         IF length.e # Nil
         THEN [e |-> "Failed reading track's length", r |-> length.r]
         ELSE [e |-> Nil, r |-> [length.r EXCEPT !.N = BE32(length.data)]]
         IN  With_length(ReadFull(chunkType.r, 4))
    IN  With_chunkType(ReadFull(rd, 4))

\* The start of parseSMFTrack: the chunk type must be MTrk; the length
\* becomes the budget of the limited reader.
BeginTrackOp(rd) ==
    LET With_chunkType(chunkType) ==
    IF chunkType.e # Nil
    THEN [e |-> "Failed reading track's chunk type", r |-> chunkType.r]
    ELSE IF chunkType.data # MTrk
    THEN [e |-> "Bad chunk type for track", r |-> chunkType.r]
    ELSE LET With_length(length) ==
         IF length.e # Nil
         THEN [e |-> "Failed reading track's length", r |-> length.r]
         ELSE [e |-> Nil, r |-> [length.r EXCEPT !.N = BE32(length.data)]]
         IN  With_length(ReadFull(chunkType.r, 4))
    IN  With_chunkType(ReadFull(rd, 4))

\* One turn of the loop of parseSMFTrack.  done: the loop ended at io.EOF.
\* firstByte is the byte that ReadSMFMessage read first (-1 when none).
ReadEventOp(rd, t) ==
    LET With_timeDelta(timeDelta) ==
    LET none == [r |-> timeDelta.r, trk |-> t, e |-> Nil, done |-> FALSE,
                 msg |-> NoMessage, firstByte |-> -1, haveDelta |-> FALSE]
    IN
    IF timeDelta.e = EOF THEN [none EXCEPT !.done = TRUE]
    ELSE IF timeDelta.e # Nil
    THEN [none EXCEPT !.e = "Failed reading time delta"]
    ELSE
      LET With_message(message, first) ==
      LET t1 == [t EXCEPT !.timeDeltas = Append(t.timeDeltas, timeDelta.val)]
          fb == IF first.e = Nil THEN first.b ELSE -1
          t2 == [t1 EXCEPT !.runningStatus = message.rs]
      IN
      IF message.e # Nil
      THEN [r |-> message.r, trk |-> t2, e |-> message.e, done |-> FALSE,
            msg |-> NoMessage, firstByte |-> fb, haveDelta |-> TRUE]
      ELSE [r |-> message.r,
            trk |-> [t2 EXCEPT !.messages = Append(t1.messages, message.msg)],
            e |-> Nil, done |-> FALSE, msg |-> message.msg,
            firstByte |-> fb, haveDelta |-> TRUE]
      IN  With_message(ReadSMFMessage(timeDelta.r, t.runningStatus),
                       readByte(timeDelta.r))
    IN  With_timeDelta(ReadVariableInt(rd))

\* The SMFTrack that parseSMFTrack returns.
TrackOf(t) == [Messages |-> t.messages, TimeDeltas |-> t.timeDeltas]

(***************************************************************************)
(* Encoding a file: SMFFile.WriteToFile and SMFTrack.WriteToFile.          *)
(***************************************************************************)
\* The header that SMFFile.WriteToFile writes for f.
HeaderBytesMut(f) ==
    MThd \o PutBE32(6) \o PutBE16(1) \o PutBE16(Len(f.Tracks))
         \o PutBE16(f.Division)

HeaderBytes(f) ==
    MThd \o PutBE32(6)
         \o PutBE16(IF Len(f.Tracks) = 1 THEN 0 ELSE 1)
         \o PutBE16(Len(f.Tracks))
         \o PutBE16(f.Division)

\* The locals of SMFTrack.WriteToFile when its loop starts; prev holds the
\* locals the previous track's call left.
NewWriteLocalsMut(prev) ==
    [i |-> 0, chunkContent |-> <<>>, runningStatus |-> prev.runningStatus]

NewWriteLocals(prev) == [i |-> 0, chunkContent |-> <<>>, runningStatus |-> 0]

\* One turn of the loop of SMFTrack.WriteToFile: the time delta and the
\* message of index c.i are added to chunkContent.
WriteEventOp(c, t) ==
    LET With_w(w) ==
    IF w.e # Nil
    THEN [enc |-> c, e |-> "Couldn't write time delta", bytes |-> <<>>]
    ELSE LET With_messageBytes(messageBytes) ==
         IF messageBytes.e # Nil
         THEN [enc |-> [c EXCEPT !.runningStatus = messageBytes.rs],
               e |-> messageBytes.e, bytes |-> <<>>]
         ELSE [enc |-> [i |-> c.i + 1,
                        chunkContent |-> w.w \o messageBytes.bytes,
                        runningStatus |-> messageBytes.rs],
               e |-> Nil, bytes |-> messageBytes.bytes]
         IN  With_messageBytes(SMFData(t.Messages[c.i + 1], c.runningStatus))
    IN  With_w(WriteVariableInt(c.chunkContent, t.TimeDeltas[c.i + 1]))

\* A variant whose length field counts the chunk header too.
ChunkBytesMut(chunkContent) ==
    MTrk \o PutBE32(Len(chunkContent) + 8) \o chunkContent

\* The chunk that SMFTrack.WriteToFile writes once the loop is over.
ChunkBytes(chunkContent) == MTrk \o PutBE32(Len(chunkContent)) \o chunkContent

\* What the last turn of a loop did.  start: the offset in the input where
\* the turn began; left: the budget N of the limited reader when it ended.
\* For a call of smf_tool: position and track as passed, delta and msg the
\* event decoded from the hex string in bytes, before the file at the call.
NoStep == [op |-> "none", rsBefore |-> 0, firstByte |-> -1, msg |-> NoMessage,
           e |-> Nil, bytes |-> <<>>, index |-> -1, track |-> -1,
           start |-> 0, left |-> 0,
           position |-> -1, delta |-> 0, before |-> NoFile]
NoTrackLocals == [messages |-> <<>>, timeDeltas |-> <<>>, runningStatus |-> 0,
                  eventCount |-> 0]
NoWriteLocals == [i |-> 0, chunkContent |-> <<>>, runningStatus |-> 0]

\* The file codec before any call.
CodecIdle ==
    /\ smf = NoFile
    /\ header = NoHeader
    /\ ti = 0
    /\ trk = NoTrackLocals
    /\ enc = NoWriteLocals
    /\ step = NoStep
    /\ err = NoError
    /\ canon = TRUE
    /\ reparsed = <<>>

\* parseSMFTrack and ParseSMFFile as functions of the input, composed of
\* the steps above.  locals: the locals the track's loop left.
RECURSIVE parseSMFTrackLoop(_, _)
parseSMFTrackLoop(rd, t) ==
    LET With_res(res) ==
    IF res.e # Nil
    THEN [track |-> TrackOf(NoTrackLocals), e |-> res.e, r |-> res.r,
          locals |-> t]
    ELSE IF res.done
    THEN [track |-> TrackOf(t), e |-> Nil, r |-> [res.r EXCEPT !.N = NoLimit],
          locals |-> t]
    ELSE parseSMFTrackLoop(res.r, res.trk)
    IN  With_res(ReadEventOp(rd, t))

parseSMFTrack(rd, prev) ==
    LET With_b(b) ==
    IF b.e # Nil
    THEN [track |-> TrackOf(NoTrackLocals), e |-> b.e, r |-> b.r,
          locals |-> prev]
    ELSE parseSMFTrackLoop(b.r, NewTrackLocals(prev))
    IN  With_b(BeginTrackOp(rd))

RECURSIVE ParseTracks(_, _, _, _)
ParseTracks(rd, f, count, prev) ==
    IF Len(f.Tracks) >= count THEN [smf |-> f, e |-> Nil]
    ELSE LET With_t(t) ==
         IF t.e # Nil THEN [smf |-> NoFile, e |-> t.e]
         ELSE ParseTracks(t.r, [f EXCEPT !.Tracks = Append(f.Tracks, t.track)],
                          count, t.locals)
         IN  With_t(parseSMFTrack(rd, prev))

ParseSMFFile(rd) ==
    LET With_h(h) ==
    IF h.e # Nil THEN [smf |-> NoFile, e |-> "Failed parsing SMF header"]
    ELSE ParseTracks(h.r, [Division |-> h.header.Division, Tracks |-> <<>>],
                     h.header.TrackCount, NoTrackLocals)
    IN  With_h(ReadHeaderOp(rd))

(***************************************************************************)
(* The program: a file is decoded from bytes step by step (ParseSMFFile),  *)
(* or built in memory by the caller, then encoded step by step             *)
(* (WriteToFile), then the bytes written are decoded again.                *)
(***************************************************************************)
Fail(p, what, cause) ==
    /\ pc' = p
    /\ err' = [what |-> what, track |-> ti, event |-> trk.eventCount,
               cause |-> cause]

\* ParseSMFFile up to its loop: the header is read and the tracks are made.
ReadHeader ==
    /\ pc = "start"
    /\ LET Step(h) ==
        /\ r' = h.r
        /\ IF h.e # Nil
           THEN /\ Fail("parse_failed", "Failed parsing SMF header", h.e)
                /\ UNCHANGED <<smf, header>>
           ELSE /\ header' = h.header
                /\ smf' = [Division |-> h.header.Division, Tracks |-> <<>>]
                /\ pc' = IF h.header.TrackCount = 0 THEN "parsed" ELSE "track"
                /\ err' = NoError
       IN  Step(ReadHeaderOp(r))
    /\ ti' = 0
    /\ UNCHANGED <<output, trk, enc, step, canon, reparsed, varintVars>>

\* parseSMFTrack up to its loop.
BeginTrack ==
    /\ pc = "track"
    /\ LET Step(b) ==
        /\ r' = b.r
        /\ IF b.e # Nil
           THEN /\ Fail("parse_failed", "Failed parsing SMF track", b.e)
                /\ smf' = NoFile
                /\ trk' = trk
           ELSE /\ trk' = NewTrackLocals(trk)
                /\ pc' = "event"
                /\ UNCHANGED <<smf, err>>
       IN  Step(BeginTrackOp(r))
    /\ step' = NoStep
    /\ UNCHANGED <<output, header, ti, enc, canon, reparsed, varintVars>>

\* The status byte was written exactly when it had to be: an explicit
\* status byte that repeats the running status is not canonical.
CanonicalEvent(res, rsBefore) ==
    (res.msg.type \in ChannelTypes /\ res.firstByte >= \h80)
        => res.firstByte # rsBefore

\* One turn of the loop of parseSMFTrack; at io.EOF the track is returned
\* to the loop of ParseSMFFile, which goes on to the next track.
ReadEvent ==
    /\ pc = "event"
    /\ LET Step(res) ==
        /\ r' = IF res.done THEN [res.r EXCEPT !.N = NoLimit] ELSE res.r
        /\ step' = [NoStep EXCEPT !.op = IF res.done THEN "end" ELSE "read",
                                  !.rsBefore = trk.runningStatus,
                                  !.firstByte = res.firstByte,
                                  !.msg = res.msg, !.e = res.e,
                                  !.index = Len(trk.messages), !.track = ti,
                                  !.start = r.i, !.left = res.r.N]
        /\ IF res.e = Panic
           THEN /\ pc' = "panic"
                /\ UNCHANGED <<smf, trk, ti, err, canon>>
           ELSE IF res.e # Nil
           THEN /\ Fail("parse_failed", "Failed parsing SMF track", res.e)
                /\ smf' = NoFile
                /\ UNCHANGED <<trk, ti, canon>>
           ELSE IF res.done
           THEN /\ smf' = [smf EXCEPT !.Tracks = Append(smf.Tracks, TrackOf(trk))]
                /\ ti' = ti + 1
                /\ pc' = IF ti + 1 >= header.TrackCount THEN "parsed"
                         ELSE "track"
                /\ UNCHANGED <<trk, err, canon>>
           ELSE /\ trk' = res.trk
                /\ canon' = (canon /\ CanonicalEvent(res, trk.runningStatus))
                /\ UNCHANGED <<smf, ti, pc, err>>
       IN  Step(ReadEventOp(r, trk))
    /\ UNCHANGED <<output, header, enc, reparsed, varintVars>>

\* SMFFile.WriteToFile up to its loop: the header is written.
WriteHeader ==
    /\ pc = "parsed"
    /\ ti' = 0
    /\ IF Len(smf.Tracks) > \hFFFF
       THEN /\ Fail("write_failed", "Have too many tracks", Nil)
            /\ UNCHANGED output
       ELSE /\ output' = output \o HeaderBytes(smf)
            /\ pc' = IF Len(smf.Tracks) = 0 THEN "written" ELSE "write_track"
            /\ err' = NoError
    /\ step' = NoStep
    /\ UNCHANGED <<r, smf, header, trk, enc, canon, reparsed, varintVars>>

\* SMFTrack.WriteToFile up to its loop.
BeginWriteTrack ==
    /\ pc = "write_track"
    /\ LET t == smf.Tracks[ti + 1] IN
        IF Len(t.Messages) # Len(t.TimeDeltas)
        THEN /\ Fail("write_failed", "Failed writing SMF track", "Bad track")
             /\ enc' = enc
        ELSE /\ enc' = NewWriteLocals(enc)
             /\ pc' = "write_event"
             /\ err' = err
    /\ step' = NoStep
    /\ UNCHANGED <<r, output, smf, header, ti, trk, canon, reparsed, varintVars>>

\* One turn of the loop of SMFTrack.WriteToFile.
WriteEvent ==
    /\ pc = "write_event"
    /\ enc.i < Len(smf.Tracks[ti + 1].TimeDeltas)
    /\ LET t == smf.Tracks[ti + 1]
           Step(res) ==
        /\ enc' = res.enc
        /\ step' = [NoStep EXCEPT !.op = "write",
                                  !.rsBefore = enc.runningStatus,
                                  !.msg = t.Messages[enc.i + 1],
                                  !.e = res.e, !.bytes = res.bytes,
                                  !.index = enc.i, !.track = ti]
        /\ IF res.e # Nil
           THEN /\ pc' = "write_failed"
                /\ err' = [what |-> "Failed writing SMF track", track |-> ti,
                           event |-> enc.i, cause |-> res.e]
           ELSE UNCHANGED <<pc, err>>
       IN  Step(WriteEventOp(enc, t))
    /\ UNCHANGED <<r, output, smf, header, ti, trk, canon, reparsed, varintVars>>

\* The end of SMFTrack.WriteToFile: the chunk is written, and the loop of
\* SMFFile.WriteToFile goes on to the next track.
FlushTrack ==
    /\ pc = "write_event"
    /\ enc.i >= Len(smf.Tracks[ti + 1].TimeDeltas)
    /\ output' = output \o ChunkBytes(enc.chunkContent)
    /\ ti' = ti + 1
    /\ pc' = IF ti + 1 >= Len(smf.Tracks) THEN "written" ELSE "write_track"
    /\ step' = NoStep
    /\ UNCHANGED <<r, smf, header, trk, enc, err, canon, reparsed, varintVars>>

\* The bytes of f's tracks when every message is encoded on its own, with
\* no running status carried from the message before it.
RECURSIVE ExplicitContent(_, _)
ExplicitContent(t, k) ==
    IF k > Len(t.Messages) THEN <<>>
    ELSE WriteVariableInt(<<>>, t.TimeDeltas[k]).w
         \o SMFData(t.Messages[k], 0).bytes
         \o ExplicitContent(t, k + 1)

RECURSIVE ExplicitChunks(_, _)
ExplicitChunks(f, k) ==
    IF k > Len(f.Tracks) THEN <<>>
    ELSE ChunkBytes(ExplicitContent(f.Tracks[k], 1)) \o ExplicitChunks(f, k + 1)

ExplicitFileBytes(f) == HeaderBytes(f) \o ExplicitChunks(f, 1)

\* The bytes written are decoded again, and so are the bytes of the same
\* file with every status byte written out.
DecodeBoth ==
    /\ pc = "written"
    /\ reparsed' = [running |-> ParseSMFFile(NewReader(output)),
                    explicit |-> ParseSMFFile(NewReader(ExplicitFileBytes(smf)))]
    /\ pc' = "reparsed"
    /\ UNCHANGED <<r, output, smf, header, ti, trk, enc, step, err, canon,
                   varintVars>>

(***************************************************************************)
(* The inputs.                                                             *)
(***************************************************************************)
\* The largest number of events in a file, and of tracks.
MaxEvents == 3
MaxTracks == 2

\* The cuts of a sequence of n events into t tracks: where each track but
\* the last ends.
Cuts(n, t) ==
    {c \in [1..(t - 1) -> 0..n] : \A j \in 1..(t - 2) : c[j] <= c[j + 1]}

\* The part of the sequence evs that the cuts c give to track k of t.
Part(evs, c, t, k) ==
    SubSeq(evs, (IF k = 1 THEN 0 ELSE c[k - 1]) + 1,
           IF k = t THEN Len(evs) ELSE c[k])

\* Every way to lay out at most MaxEvents events of the pool in 1 to
\* MaxTracks tracks.
Layouts(pool) ==
    UNION { UNION { { [k \in 1..t |-> Part(evs, c, t, k)] : c \in Cuts(Len(evs), t) }
                    : t \in 1..MaxTracks }
            : evs \in UNION {[1..n -> pool] : n \in 0..MaxEvents} }

RECURSIVE Flatten(_)
Flatten(ss) == IF ss = <<>> THEN <<>> ELSE Head(ss) \o Flatten(Tail(ss))

\* Events as bytes: a delta time and a message.
EventBytesPool ==
    { <<\h81, \h00, \h90, \h3C, \h40>>,    \* NoteOn, channel 0, delta 0x80
      <<\h00, \h3C, \h00>>,                \* two data bytes, no status byte
      <<\h00, \hFF, \h2F, \h00>>,          \* EndOfTrack
      <<\h00, \hF0, \h02, \h7E, \hF7>>,    \* sysex F0 with data 7E F7
      <<\h00, \hC0, \h05>> }               \* ProgramChange, channel 0

\* A file as bytes: the header that fits the tracks, then each track as a
\* chunk whose length is the length of its content.
FileBytes(division, contents) ==
    MThd \o PutBE32(6) \o PutBE16(IF Len(contents) = 1 THEN 0 ELSE 1)
         \o PutBE16(Len(contents)) \o PutBE16(division)
         \o Flatten([k \in 1..Len(contents) |-> ChunkBytes(contents[k])])

\* The file of TestParseSMFFile.
TestFile ==
    FileBytes(\h60,
      << <<\h00, \hFF, \h58, \h04, \h04, \h02, \h18, \h08,
           \h00, \hFF, \h51, \h03, \h07, \hA1, \h20,
           \h83, \h00, \hFF, \h2F, \h00>>,
         <<\h00, \hC0, \h05,
           \h81, \h40, \h90, \h4C, \h20,
           \h81, \h40, \h4C, \h00,
           \h00, \hFF, \h2F, \h00>>,
         <<\h00, \hC1, \h2E,
           \h60, \h91, \h43, \h40,
           \h82, \h20, \h43, \h00,
           \h00, \hFF, \h2F, \h00>>,
         <<\h00, \hC2, \h46,
           \h00, \h92, \h30, \h60,
           \h00, \h3C, \h60,
           \h83, \h00, \h30, \h00,
           \h00, \h3C, \h00,
           \h00, \hFF, \h2F, \h00>> >>)

InputFiles ==
    { FileBytes(\h60, [k \in 1..Len(l) |-> Flatten(l[k])])
        : l \in Layouts(EventBytesPool) }
    \cup {TestFile}

\* Events in memory: a delta time and a message.
Ev(d, m) == [delta |-> d, msg |-> m]
EventPool ==
    { Ev(\h80, [type |-> "NoteOn", Channel |-> 0, Note |-> \h3C, Velocity |-> \h40]),
      Ev(0, [type |-> "NoteOff", Channel |-> 0, Note |-> \h3C, Velocity |-> 0]),
      Ev(0, [type |-> "ProgramChange", Channel |-> 0, Value |-> 5]),
      Ev(0, [type |-> "EndOfTrack"]),
      Ev(0, [type |-> "SystemExclusive", DataBytes |-> <<\h7E>>]) }

\* Channel messages with fields at and beyond the ends of their ranges.
Channels == {0, 15, 16, 20}
DataValues == {0, 127, 128, 200}
RangePool ==
    { [type |-> t, Channel |-> c, Note |-> a, Velocity |-> b]
        : t \in {"NoteOff", "NoteOn"}, c \in Channels, a, b \in DataValues }
    \cup { [type |-> "Aftertouch", Channel |-> c, Note |-> a, Pressure |-> b]
        : c \in Channels, a, b \in DataValues }
    \cup { [type |-> "ControlChange", Channel |-> c, ControllerNumber |-> a,
            Value |-> b] : c \in Channels, a, b \in DataValues }
    \cup { [type |-> t, Channel |-> c, Value |-> a]
        : t \in {"ProgramChange", "ChannelPressure"}, c \in Channels,
          a \in DataValues }
    \cup { [type |-> "PitchBend", Channel |-> c, Value |-> a]
        : c \in Channels, a \in {0, \h2000, \h3FFF, \h4000} }

\* Two messages of one type and channel, one after the other.
PairPool ==
    { <<m, n>> : m, n \in {x \in RangePool :
                              /\ x.Channel = 15
                              /\ SMFData(x, 0).e = Nil} }

TrackOfEvents(evs) ==
    [Messages |-> [k \in 1..Len(evs) |-> evs[k].msg],
     TimeDeltas |-> [k \in 1..Len(evs) |-> evs[k].delta]]

\* Tracks that cannot be encoded whole: more messages than time deltas or
\* fewer, a time delta beyond 0x0FFFFFFF, a message out of range after a
\* good one; and a track with the largest time delta.
GoodNote == [type |-> "NoteOn", Channel |-> 0, Note |-> \h3C, Velocity |-> \h40]
BadNote == [type |-> "NoteOn", Channel |-> 16, Note |-> \h3C, Velocity |-> \h40]
OddTracks ==
    { [Messages |-> <<GoodNote, GoodNote>>, TimeDeltas |-> <<0>>],
      [Messages |-> <<>>, TimeDeltas |-> <<0>>],
      TrackOfEvents(<<Ev(0, GoodNote), Ev(MaxVariableInt + 1, GoodNote)>>),
      TrackOfEvents(<<Ev(0, GoodNote), Ev(0, BadNote)>>),
      TrackOfEvents(<<Ev(MaxVariableInt, GoodNote)>>) }
OddTrackFiles ==
    { [Division |-> \h60, Tracks |-> ts] :
        ts \in UNION { { <<b>>, <<TrackOfEvents(<<Ev(\h80, GoodNote)>>), b>>,
                         <<b, TrackOfEvents(<<Ev(\h80, GoodNote)>>)>> }
                       : b \in OddTracks } }

\* Tempo values within and beyond 24 bits.
TempoValues == {0, \h07A120, \hFFFFFE, \hFFFFFF, \h1000000}

\* A file of 65536 empty tracks, one more than the header can count.
TooManyTracks ==
    [Division |-> \h60, Tracks |-> [k \in 1..(\hFFFF + 1) |-> TrackOfEvents(<<>>)]]

MemFiles ==
    { [Division |-> \h60, Tracks |-> [k \in 1..Len(l) |-> TrackOfEvents(l[k])]]
        : l \in Layouts(EventPool) }
    \cup {TooManyTracks}
    \cup { [Division |-> \h60,
            Tracks |-> <<TrackOfEvents(<<Ev(0, [type |-> "SetTempo", t |-> v])>>)>>]
            : v \in TempoValues }
    \cup { [Division |-> \h60,
            Tracks |-> <<TrackOfEvents(<<Ev(0, m)>>)>>] : m \in RangePool }
    \cup { [Division |-> \h60,
            Tracks |-> <<TrackOfEvents(<<Ev(0, p[1]), Ev(\h80, p[2])>>)>>]
            : p \in {q \in PairPool : q[1].type = q[2].type} }
    \cup OddTrackFiles

VarIntIdle ==
    /\ written = <<>>
    /\ got = <<>>
    /\ last = [op |-> "none", n |-> 0, val |-> 0, e |-> Nil, start |-> 0,
               before |-> <<>>]

\* A file is opened and decoded, and the result is encoded.
Init ==
    /\ pc = "start"
    /\ r \in {NewReader(b) : b \in InputFiles}
    /\ output = <<>>
    /\ CodecIdle
    /\ VarIntIdle

Next ==
    \/ ReadHeader
    \/ BeginTrack
    \/ ReadEvent
    \/ WriteHeader
    \/ BeginWriteTrack
    \/ WriteEvent
    \/ FlushTrack
    \/ DecodeBoth

Spec == Init /\ [][Next]_vars

\* A file built in memory is encoded.
InitEncode ==
    /\ pc = "parsed"
    /\ r = NewReader(<<>>)
    /\ output = <<>>
    /\ smf \in MemFiles
    /\ header = NoHeader
    /\ ti = 0
    /\ trk = NoTrackLocals
    /\ enc = NoWriteLocals
    /\ step = NoStep
    /\ err = NoError
    /\ canon = TRUE
    /\ reparsed = <<>>
    /\ VarIntIdle

NextEncode ==
    \/ WriteHeader
    \/ BeginWriteTrack
    \/ WriteEvent
    \/ FlushTrack
    \/ DecodeBoth

SpecEncode == InitEncode /\ [][NextEncode]_vars

(***************************************************************************)
(* Files that are only decoded: headers of every shape, tracks whose       *)
(* declared length is more or less than their content, events that are     *)
(* cut short, status bytes of every kind.                                  *)
(***************************************************************************)
\* The largest number of events in a track taken from ParsePool.
MaxParseEvents == 2

\* A file as bytes with the header fields as given.
RawFile(tag, size, format, count, division, body) ==
    tag \o PutBE32(size) \o PutBE16(format) \o PutBE16(count)
        \o PutBE16(division) \o body

\* A track chunk with the declared length as given.
Chunk(declared, content) == MTrk \o PutBE32(declared) \o content

\* A file whose header fits its chunks.
FileOfChunks(chunks) ==
    RawFile(MThd, 6, IF Len(chunks) = 1 THEN 0 ELSE 1, Len(chunks), \h60,
            Flatten(chunks))

NoteOnBytes == <<\h00, \h90, \h3C, \h40>>
EndOfTrackBytes == <<\h00, \hFF, \h2F, \h00>>

\* Events, whole and cut short.
ParsePool ==
    { NoteOnBytes,
      <<\h00, \h3C, \h00>>,                \* two data bytes, no status byte
      EndOfTrackBytes,
      <<\h00, \hFF, \h01, \h02, \h41, \h42>>,   \* Text "AB"
      <<\h00, \hF0, \h02, \h7E, \hF7>>,    \* sysex F0, data 7E F7
      <<\h00, \hF0, \h02, \h7E, \h7D>>,    \* sysex F0, data without F7
      <<\h00, \hF0, \h00>>,                \* sysex F0 of length 0
      <<\h00>>,                            \* a delta time and nothing else
      <<\h00, \h90, \h3C>>,                \* NoteOn without its velocity
      <<\h81>> }                           \* half a delta time

\* The declared lengths tried for a content: one less, exact, one more.
DeclaredLengths(content) ==
    {n \in {Len(content) - 1, Len(content), Len(content) + 1} : n >= 0}

TrackContents ==
    {Flatten(evs) : evs \in UNION {[1..n -> ParsePool] : n \in 0..MaxParseEvents}}

FirstTracks ==
    { NoteOnBytes, EndOfTrackBytes, NoteOnBytes \o EndOfTrackBytes }

LengthFiles ==
    { FileOfChunks(<<Chunk(n, c)>>) : n \in 0..1, c \in {<<>>} }
    \cup UNION { { FileOfChunks(<<Chunk(n, c)>>) : n \in DeclaredLengths(c) }
                 : c \in TrackContents }
    \cup UNION { UNION { { FileOfChunks(<<Chunk(Len(f), f), Chunk(n, c)>>)
                           : n \in DeclaredLengths(c) }
                         : c \in TrackContents }
                 : f \in FirstTracks }

\* The status bytes F1..F6 and F8..FE.
UnsupportedStatus == (241..246) \cup (248..254)

UnsupportedFiles ==
    { FileOfChunks(<<Chunk(Len(c), c)>>) :
        c \in { before \o <<\h00, x>> \o after :
                  before \in {<<>>, NoteOnBytes},
                  x \in UnsupportedStatus,
                  after \in {<<>>, <<\h00>> \o EndOfTrackBytes} } }

\* A channel message with its status byte, then one under running status.
StatusKinds == {\h80, \h90, \hA0, \hB0, \hC0, \hD0, \hE0}
FirstEvent(kind, channel) ==
    IF kind \in {\hC0, \hD0} THEN <<\h00, kind + channel, \h05>>
    ELSE <<\h00, kind + channel, \h3C, \h40>>

RunningFiles ==
    { FileOfChunks(<<Chunk(Len(c), c)>>) :
        c \in { FirstEvent(k, ch) \o <<\h00>> \o d :
                  k \in StatusKinds, ch \in {0, 15},
                  d \in {<<a>> : a \in {\h00, \h3C, \h7F}}
                        \cup {<<a, b>> : a \in {\h00, \h3C, \h7F},
                                          b \in {\h00, \h7F, \h80}} } }

\* Headers of every shape before two good tracks, and a header cut short.
HeaderFiles ==
    { RawFile(tag, size, format, count, \h1E0,
              Chunk(4, NoteOnBytes) \o Chunk(4, EndOfTrackBytes)) :
        tag \in {MThd, <<\h4D, \h54, \h68, \h78>>}, size \in {6, 7},
        format \in 0..2, count \in 0..2 }
    \cup { SubSeq(MThd \o PutBE32(6) \o PutBE16(1), 1, 10) }

\* Meta events of the types with a fixed payload length, of two text
\* types and of two types the parser does not know, with every declared
\* payload length up to MaxPayload, alone in a track and before a NoteOn.
MaxPayload == 5
MetaTypes == {\h00, \h20, \h2F, \h58, \h59, \h01, \h0F, \h10, \h7F}
Payload(n) == [j \in 1..n |-> 1]
MetaFiles ==
    { FileOfChunks(<<Chunk(Len(c), c)>>) :
        c \in { <<\h00, \hFF, t, n>> \o Payload(n) \o after :
                  t \in MetaTypes, n \in 0..MaxPayload,
                  after \in {<<>>, NoteOnBytes} } }

\* A chunk of another type where a track is expected: first or after a
\* good track, with a good track after it.
OtherTags ==
    { <<\h4D, \h54, \h72, \h6C>>,     \* "MTrl"
      <<\h6D, \h74, \h72, \h6B>>,     \* "mtrk"
      <<\h58, \h46, \h49, \h48>>,     \* "XFIH"
      MThd }
OtherChunk(tag, content) == tag \o PutBE32(Len(content)) \o content
BadTagFiles ==
    { RawFile(MThd, 6, 1, 2 + Len(before), \h60,
              Flatten(before) \o OtherChunk(tag, c)
                  \o Chunk(4, EndOfTrackBytes)) :
        before \in {<<>>, <<Chunk(4, NoteOnBytes)>>},
        tag \in OtherTags,
        c \in {<<>>, NoteOnBytes} }

ParseInputs ==
    LengthFiles \cup UnsupportedFiles \cup RunningFiles \cup HeaderFiles
        \cup MetaFiles \cup BadTagFiles

\* A file is opened and decoded.
InitParse ==
    /\ pc = "start"
    /\ r \in {NewReader(b) : b \in ParseInputs}
    /\ output = <<>>
    /\ CodecIdle
    /\ VarIntIdle

NextParse ==
    \/ ReadHeader
    \/ BeginTrack
    \/ ReadEvent

SpecParse == InitParse /\ [][NextParse]_vars

(***************************************************************************)
(* The VarInt harness: TestVariableIntWrite and TestVariableIntRead.  A    *)
(* run writes integers to one buffer and reads them back, or reads         *)
(* integers from a given byte stream until the reader fails.               *)
(***************************************************************************)
MaxWrites == 2
MaxStream == 5

SeqsUpTo(S, n) == UNION {[1..k -> S] : k \in 0..n}

\* The table of the tests: an integer and its encoding.
VarIntTable ==
    { [n |-> \h00,       bytes |-> <<\h00>>],
      [n |-> \h40,       bytes |-> <<\h40>>],
      [n |-> \h7F,       bytes |-> <<\h7F>>],
      [n |-> \h80,       bytes |-> <<\h81, \h00>>],
      [n |-> \h2000,     bytes |-> <<\hC0, \h00>>],
      [n |-> \h3FFF,     bytes |-> <<\hFF, \h7F>>],
      [n |-> \h4000,     bytes |-> <<\h81, \h80, \h00>>],
      [n |-> \h100000,   bytes |-> <<\hC0, \h80, \h00>>],
      [n |-> \h1FFFFF,   bytes |-> <<\hFF, \hFF, \h7F>>],
      [n |-> \h200000,   bytes |-> <<\h81, \h80, \h80, \h00>>],
      [n |-> \h08000000, bytes |-> <<\hC0, \h80, \h80, \h00>>],
      [n |-> \h0FFFFFFF, bytes |-> <<\hFF, \hFF, \hFF, \h7F>>] }

\* Integers given to WriteVariableInt: the table, every integer whose four
\* 7-bit groups are each 0 or 0x7F, and integers above the format's limit
\* (Go's uint32 goes on to 0xFFFFFFFF; TLC's integers end at 0x7FFFFFFF).
VarIntInputs ==
    {t.n : t \in VarIntTable}
    \cup {a * 2097152 + b * 16384 + c * 128 + d : a, b, c, d \in {0, \h7F}}
    \cup {\h10000000, \h10000001, \h7FFFFFFF}

\* Byte streams given to ReadVariableInt.
StreamBytes == {\h00, \h7F, \h80, \hFF}
VarIntStreams == SeqsUpTo(StreamBytes, MaxStream) \cup {t.bytes : t \in VarIntTable}

NoCall == [op |-> "none", n |-> 0, val |-> 0, e |-> Nil, start |-> 0,
           before |-> <<>>]

InitVarInt ==
    /\ pc = "idle"
    /\ r = NewReader(<<>>)
    /\ output = <<>>
    /\ written = <<>>
    /\ got = <<>>
    /\ last = NoCall
    /\ CodecIdle

\* WriteVariableInt(&output, n)
VWrite(n) ==
    /\ pc \in {"idle", "writing"}
    /\ Len(written) < MaxWrites
    /\ LET res == WriteVariableInt(output, n) IN
        /\ output' = res.w
        /\ written' = IF res.e = Nil
                      THEN Append(written, [n |-> n, end |-> Len(res.w)])
                      ELSE written
        /\ last' = [NoCall EXCEPT !.op = "write", !.n = n, !.e = res.e,
                                  !.before = output]
    /\ pc' = "writing"
    /\ UNCHANGED <<r, got, codecVars>>

\* r := bytes.NewReader(output.Bytes())
VReadBack ==
    /\ pc = "writing"
    /\ r' = NewReader(output)
    /\ pc' = "readback"
    /\ last' = NoCall
    /\ UNCHANGED <<output, written, got, codecVars>>

\* r := bytes.NewReader(data)
VOpen(s) ==
    /\ pc = "idle"
    /\ r' = NewReader(s)
    /\ pc' = "reading"
    /\ UNCHANGED <<output, written, got, last, codecVars>>

\* ReadVariableInt(r)
VRead ==
    /\ pc \in {"reading", "readback"}
    /\ LET res == ReadVariableInt(r) IN
        /\ r' = res.r
        /\ got' = IF res.e = Nil THEN Append(got, res.val) ELSE got
        /\ last' = [NoCall EXCEPT !.op = "read", !.val = res.val,
                                  !.e = res.e, !.start = r.i]
    /\ UNCHANGED <<pc, output, written, codecVars>>

NextVarInt ==
    \/ \E n \in VarIntInputs : VWrite(n)
    \/ VReadBack
    \/ \E s \in VarIntStreams : VOpen(s)
    \/ VRead

SpecVarInt == InitVarInt /\ [][NextVarInt]_vars

(***************************************************************************)
(* Claims about the VarInt codec (checked under SpecVarInt).               *)
(***************************************************************************)
IsRead == last.op = "read"
IsWrite == last.op = "write"

\* The byte of the stream at offset k (0-based) has its top bit set.
HasContinuation(k) == k < Len(r.s) /\ BitAnd(r.s[k + 1], \h80) # 0

\* C2: reading back what WriteVariableInt wrote returns the integers
\* written, in order and without error, each read consuming exactly the
\* bytes of one integer; and the integers of the table are written as the
\* table's bytes and the table's bytes are read as the table's integers.
C2_RoundTrip ==
    /\ (pc = "readback" /\ IsRead) =>
          LET k == Len(got) IN
          /\ k <= Len(written)
          /\ \A j \in 1..k : got[j] = written[j].n
          /\ IF last.e = Nil
             THEN k > 0 /\ last.val = written[k].n /\ r.i = written[k].end
             ELSE last.e = EOF /\ k = Len(written) /\ r.i = Len(output)
    /\ \A t \in VarIntTable :
          /\ (IsWrite /\ last.n = t.n) =>
                (last.e = Nil /\ output = last.before \o t.bytes)
          /\ (pc = "reading" /\ IsRead /\ r.s = t.bytes /\ last.start = 0) =>
                (last.e = Nil /\ last.val = t.n /\ r.i = Len(t.bytes))

C2_Witness ==
    /\ pc = "readback" /\ IsRead /\ last.e = Nil
    /\ Len(got) = 2 /\ got[1] = \h2000 /\ got[2] = \h0FFFFFFF
    /\ r.i = 6

\* C3: ReadVariableInt returns io.EOF exactly when the input ends before
\* the first byte of the integer; when the input ends after one or more
\* continuation bytes, it returns an error other than io.EOF.
C3_DistinguishedEOF ==
    IsRead =>
      /\ (last.e = EOF) <=> (last.start >= Len(r.s))
      /\ ( /\ last.start < Len(r.s)
           /\ Len(r.s) - last.start < VarIntLoopCount
           /\ \A k \in last.start..(Len(r.s) - 1) : HasContinuation(k) )
         => last.e \notin {Nil, EOF}

C3_Witness ==
    /\ IsRead /\ last.e = "Failed reading full integer"
    /\ last.start = 1 /\ Len(r.s) = 3

\* C4: WriteVariableInt returns an error for an integer above 0x0FFFFFFF
\* and then leaves the output as it was.
C4_OversizedWrite ==
    (IsWrite /\ last.n > \h0FFFFFFF) => (last.e # Nil /\ output = last.before)

C4_Witness ==
    /\ IsWrite /\ last.n = \h10000000 /\ last.e # Nil
    /\ last.before # <<>>

\* C5: when the fourth byte of an integer has its top bit set,
\* ReadVariableInt returns an error and no value, having consumed exactly
\* the four bytes; and no integer it returns exceeds 0x0FFFFFFF.
C5_FourByteLimit ==
    IsRead =>
      /\ (\A k \in last.start..(last.start + 3) : HasContinuation(k))
            => (last.e # Nil /\ last.val = 0 /\ r.i = last.start + 4)
      /\ (last.e = Nil) => (last.val <= \h0FFFFFFF)

C5_Witness ==
    /\ IsRead /\ last.e = "Invalid variable-length integer"
    /\ last.start = 0 /\ r.i = 4 /\ Len(r.s) = 5

(***************************************************************************)
(* Claims about the file codec (checked under Spec and SpecEncode).        *)
(***************************************************************************)
IsChannelVoice(m) == m.type \in ChannelTypes

\* The status byte of a channel-voice message: category nibble | channel.
StatusByte(m) ==
    BitOr(CASE m.type = "NoteOff" -> \h80
            [] m.type = "NoteOn" -> \h90
            [] m.type = "Aftertouch" -> \hA0
            [] m.type = "ControlChange" -> \hB0
            [] m.type = "ProgramChange" -> \hC0
            [] m.type = "ChannelPressure" -> \hD0
            [] m.type = "PitchBend" -> \hE0,
          m.Channel)

\* The number of data bytes of a channel-voice message.
DataLength(m) == IF m.type \in {"ProgramChange", "ChannelPressure"} THEN 1 ELSE 2

\* A field of a channel-voice message is out of its range.
OutOfRange(m) ==
    \/ m.Channel > 15
    \/ m.type \in {"NoteOff", "NoteOn"} /\ (m.Note > 127 \/ m.Velocity > 127)
    \/ m.type = "Aftertouch" /\ (m.Note > 127 \/ m.Pressure > 127)
    \/ m.type = "ControlChange" /\ (m.ControllerNumber > 127 \/ m.Value > 127)
    \/ m.type \in {"ProgramChange", "ChannelPressure"} /\ m.Value > 127
    \/ m.type = "PitchBend" /\ m.Value > 16383

IsReadStep == step.op = "read"
IsWriteStep == step.op = "write"

\* The message before the one the last step was about, in its track.
PreviousWritten ==
    IF step.index = 0 THEN NoMessage
    ELSE smf.Tracks[step.track + 1].Messages[step.index]
PreviousRead ==
    IF step.index = 0 THEN NoMessage ELSE trk.messages[step.index]

\* C1: a file that ParseSMFFile accepts and in which every channel-voice
\* event omits its status byte exactly when it repeats the running status
\* is written back by WriteToFile without error and byte for byte.
C1_RoundTrip ==
    (pc \in {"written", "write_failed"} /\ canon)
        => (pc = "written" /\ output = r.s)

\* C6: on encode, a channel-voice message whose status byte equals that of
\* the message just before it in the track, itself channel-voice, is
\* written as its data bytes only; every other channel-voice message
\* (first of the track, after a sysex or meta event, or of another status)
\* is written with its status byte first.
C6_StatusOmission ==
    (IsWriteStep /\ step.e = Nil /\ IsChannelVoice(step.msg)) =>
        IF /\ IsChannelVoice(PreviousWritten)
           /\ StatusByte(PreviousWritten) = StatusByte(step.msg)
        THEN /\ Len(step.bytes) = DataLength(step.msg)
             /\ step.bytes[1] <= \h7F
        ELSE /\ Len(step.bytes) = 1 + DataLength(step.msg)
             /\ step.bytes[1] = StatusByte(step.msg)

C6_Witness ==
    /\ IsWriteStep /\ step.index = 1 /\ step.e = Nil
    /\ step.msg.type = "NoteOn" /\ PreviousWritten = step.msg
    /\ step.bytes = <<\h3C, \h40>>
    /\ enc.chunkContent = <<\h81, \h00, \h90, \h3C, \h40, \h81, \h00, \h3C, \h40>>

\* C7: ReadSMFMessage returns an error and no message when the first byte
\* of the message has its high bit clear and the running status is zero;
\* and the running status is zero for the first message of a track and for
\* a message that directly follows a sysex or meta event.
C7_NoRunningStatus ==
    (IsReadStep /\ step.firstByte >= 0) =>
      /\ (step.firstByte <= \h7F /\ step.rsBefore = 0)
            => (step.e # Nil /\ step.msg = NoMessage)
      /\ (step.index = 0 \/ ~IsChannelVoice(PreviousRead))
            => step.rsBefore = 0

C7_Witness ==
    /\ IsReadStep /\ step.index = 2 /\ step.firstByte = \h3C
    /\ trk.messages[1].type = "NoteOn"
    /\ trk.messages[2].type = "EndOfTrack"
    /\ step.e # Nil /\ step.msg = NoMessage /\ pc = "parse_failed"

\* C8: the running status is 0 when a track starts: the first message of
\* a track that is decoded finds the running status 0, so a data byte
\* there fails, and the first channel-voice message of a track that is
\* encoded is written with its status byte, whatever the track before it
\* ended with.
C8_ResetPerTrack ==
    /\ (IsReadStep /\ step.index = 0) =>
          /\ step.rsBefore = 0
          /\ (step.firstByte >= 0 /\ step.firstByte <= \h7F) => step.e # Nil
    /\ (IsWriteStep /\ step.index = 0 /\ step.e = Nil
          /\ IsChannelVoice(step.msg)) =>
          /\ step.rsBefore = 0
          /\ step.bytes[1] = StatusByte(step.msg)

C8_Witness ==
    /\ IsReadStep /\ step.track = 1 /\ step.index = 0
    /\ r.s = FileBytes(\h60, << <<\h81, \h00, \h90, \h3C, \h40>>,
                               <<\h00, \h3C, \h00>> >>)
    /\ step.firstByte = \h3C /\ step.e # Nil /\ pc = "parse_failed"

\* Every message of the file in memory is a channel-voice message.
AllChannelVoice ==
    \A k \in 1..Len(smf.Tracks) :
       \A j \in 1..Len(smf.Tracks[k].Messages) :
          IsChannelVoice(smf.Tracks[k].Messages[j])

\* C9: the bytes of channel-voice messages with every status byte written
\* and the bytes with the repeated status bytes left out are both decoded
\* without error, to the same delta-times and messages.
C9_BothForms ==
    (pc = "reparsed" /\ AllChannelVoice) =>
        /\ reparsed.running.e = Nil
        /\ reparsed.explicit.e = Nil
        /\ reparsed.running.smf = reparsed.explicit.smf
        /\ reparsed.running.smf = smf

C9_Witness ==
    /\ pc = "reparsed" /\ AllChannelVoice
    /\ Len(smf.Tracks) = 1 /\ Len(smf.Tracks[1].Messages) = 3
    /\ Len(output) + 2 = Len(ExplicitFileBytes(smf))
    /\ reparsed.running.e = Nil
    /\ reparsed.running.smf = reparsed.explicit.smf

\* C10: SMFData of a channel-voice message returns an error exactly when
\* its channel is above 15, or a 7-bit field is above 127, or a pitch-bend
\* value is above 16383.
C10_FieldRanges ==
    (IsWriteStep /\ IsChannelVoice(step.msg)
        /\ step.e # "Couldn't write time delta") =>
        ((step.e # Nil) <=> OutOfRange(step.msg))

C10_Witness ==
    /\ IsWriteStep /\ pc = "write_failed"
    /\ step.msg = [type |-> "NoteOn", Channel |-> 0, Note |-> 127,
                   Velocity |-> 200]
    /\ step.e = "Invalid note-on velocity"

(***************************************************************************)
(* Claims about decoding malformed files (checked under SpecParse).        *)
(***************************************************************************)
\* The loop of parseSMFTrack has just ended the track normally.
IsEndStep == step.op = "end"

\* The bytes of the input that the last turn of the loop consumed.
ConsumedBytes == SubSeq(r.s, step.start + 1, r.i)

\* The payload of a message that carries a length-prefixed payload.
HasPayload(m) == m.type \in {"Text", "GenericMeta", "SystemExclusive"}
PayloadOf(m) == IF m.type = "SystemExclusive" THEN m.DataBytes ELSE m.Data

\* C11: a track whose declared length is larger than the content present
\* in the input is never reported as ended normally: when the loop of
\* parseSMFTrack ends a track, the declared length has been used up.
C11_TruncatedTrack == IsEndStep => step.left = 0

\* C12: a track ends normally exactly at the end of its declared content,
\* at the start of an event and with no byte of a delta time read; and an
\* event that the end of the content cuts short is an error: a message
\* that is returned is made of bytes of the input, and a delta time with
\* no message byte after it is an error.
C12_NormalEnd ==
    /\ IsEndStep => (step.left = 0 /\ r.i = step.start)
    /\ (IsReadStep /\ r.i > step.start /\ step.firstByte = -1) => step.e # Nil
    /\ (IsReadStep /\ step.e = Nil /\ HasPayload(step.msg)) =>
          LET n == Len(PayloadOf(step.msg)) IN
          /\ n <= Len(ConsumedBytes) - 3
          /\ PayloadOf(step.msg) = SubSeq(r.s, r.i - n + 1, r.i)

\* ParseSMFFile has returned a file.
Accepted == pc = "parsed"

\* The fields of the header as they stand in the input.
InputTag == SubSeq(r.s, 1, 4)
InputChunkSize == SubSeq(r.s, 5, 8)
InputFormat == r.s[9] * 256 + r.s[10]
InputTrackCount == r.s[11] * 256 + r.s[12]
InputDivision == r.s[13] * 256 + r.s[14]

\* C13: ParseSMFFile returns a file only when the header's tag is MThd
\* and its chunk size is 6; otherwise it returns an error.
C13_HeaderChecked ==
    Accepted => (InputTag = <<77, 84, 104, 100>> /\ InputChunkSize = <<0, 0, 0, 6>>)

\* C14: ParseSMFFile returns a file only when the header's format is 0 or
\* 1, and a file of format 0 has exactly one track.
C14_FormatChecked ==
    Accepted =>
      /\ InputFormat \in {0, 1}
      /\ InputFormat = 0 => (InputTrackCount = 1 /\ Len(smf.Tracks) = 1)

\* The offset in the input where the k chunks that start at offset o end,
\* by their declared lengths (or where the input ends).
RECURSIVE ChunksEnd(_, _)
ChunksEnd(o, k) ==
    IF k = 0 THEN o
    ELSE IF o + 8 > Len(r.s) THEN Len(r.s)
    ELSE ChunksEnd(Min(Len(r.s),
                       o + 8 + ((r.s[o + 5] * 256 + r.s[o + 6]) * 256
                                + r.s[o + 7]) * 256 + r.s[o + 8]),
                   k - 1)

\* Chunk k of the input (from 1), decoded on its own.
ChunkDecoded(k) ==
    parseSMFTrack([s |-> r.s, i |-> ChunksEnd(14, k - 1), N |-> NoLimit],
                  NoTrackLocals)

\* C15: the file ParseSMFFile returns has as many tracks as the header's
\* track count says and the header's division; track k is what chunk k of
\* the input decodes to, the chunks lying one after the other from the end
\* of the header, and the input is read up to the end of the last of them.
\* When ParseSMFFile fails it returns no file.
C15_TracksInOrder ==
    /\ Accepted =>
         /\ Len(smf.Tracks) = InputTrackCount
         /\ smf.Division = InputDivision
         /\ \A k \in 1..InputTrackCount :
               /\ SubSeq(r.s, ChunksEnd(14, k - 1) + 1,
                         ChunksEnd(14, k - 1) + 4) = <<77, 84, 114, 107>>
               /\ ChunkDecoded(k).e = Nil
               /\ smf.Tracks[k] = ChunkDecoded(k).track
         /\ r.i = ChunksEnd(14, InputTrackCount)
    /\ pc = "parse_failed" => smf = NoFile

C15_Witness ==
    /\ Accepted /\ InputTrackCount = 2 /\ smf.Division = 480
    /\ Len(smf.Tracks) = 2
    /\ smf.Tracks[1].Messages[1].type = "NoteOn"
    /\ smf.Tracks[2].Messages[1].type = "EndOfTrack"
    /\ r.i = 38 /\ Len(r.s) = 38

\* The content of the chunk that SMFTrack.WriteToFile makes of track t,
\* from the locals c on.
RECURSIVE ContentFrom(_, _)
ContentFrom(t, c) ==
    IF c.i >= Len(t.TimeDeltas) THEN c.chunkContent
    ELSE ContentFrom(t, WriteEventOp(c, t).enc)

\* The chunks of the first k tracks of the file in memory, in order.
RECURSIVE ChunksWritten(_)
ChunksWritten(k) ==
    IF k = 0 THEN <<>>
    ELSE ChunksWritten(k - 1)
         \o <<77, 84, 114, 107>>
         \o PutBE32(Len(ContentFrom(smf.Tracks[k], NoWriteLocals)))
         \o ContentFrom(smf.Tracks[k], NoWriteLocals)

\* The header the claim describes for the file in memory.
ExpectedHeader ==
    <<77, 84, 104, 100, 0, 0, 0, 6,
      0, IF Len(smf.Tracks) = 1 THEN 0 ELSE 1,
      Len(smf.Tracks) \div 256, Len(smf.Tracks) % 256,
      smf.Division \div 256, smf.Division % 256>>

\* C16: WriteToFile writes the header with the number of tracks in memory
\* as track count and format 0 exactly when there is one track, then the
\* chunks of the tracks in their order; with more than 65535 tracks it
\* fails and writes nothing.
C16_HeaderAndOrder ==
    /\ pc \in {"write_track", "write_event", "written", "reparsed"} =>
          /\ Len(smf.Tracks) <= 65535
          /\ output = ExpectedHeader \o ChunksWritten(ti)
          /\ pc \in {"written", "reparsed"} => ti = Len(smf.Tracks)
    /\ (Len(smf.Tracks) > 65535 /\ pc # "parsed") =>
          (pc = "write_failed" /\ output = <<>>)

C16_Witness ==
    /\ pc = "written" /\ Len(smf.Tracks) = 2
    /\ output = <<77, 84, 104, 100, 0, 0, 0, 6, 0, 1, 0, 2, 0, 96,
                  77, 84, 114, 107, 0, 0, 0, 5, 129, 0, 144, 60, 64,
                  77, 84, 114, 107, 0, 0, 0, 4, 0, 255, 47, 0>>

\* C17: for a first byte in F1..F6 or F8..FE ReadSMFMessage returns an
\* error and no message, having read that byte and nothing after it.
C17_UnsupportedStatus ==
    (IsReadStep /\ step.firstByte \in UnsupportedStatus) =>
        /\ step.e \notin {Nil, Panic}
        /\ step.msg = NoMessage
        /\ pc = "parse_failed"
        /\ r.i > step.start /\ r.s[r.i] = step.firstByte

C17_Witness ==
    /\ IsReadStep /\ step.firstByte = \hF8 /\ step.index = 1
    /\ step.e = "Status byte not yet supported"
    /\ r.i < Len(r.s) /\ pc = "parse_failed"

\* The offset in the input (from 1) of the first byte of the message of
\* the last turn: the byte after the delta time.
FirstByteAt ==
    step.start + 1
      + (CHOOSE j \in 1..4 :
           /\ r.s[step.start + j] < 128
           /\ \A i \in 1..(j - 1) : r.s[step.start + i] >= 128)

\* The last turn read a sysex event begun by F0 whose length is one byte.
IsSysexStep ==
    /\ IsReadStep /\ step.firstByte = \hF0
    /\ FirstByteAt + 1 <= Len(r.s)
    /\ r.s[FirstByteAt + 1] < 128

\* The declared length of that event and the payload present in the input.
SysexLength == r.s[FirstByteAt + 1]
SysexPayload ==
    SubSeq(r.s, FirstByteAt + 2, Min(Len(r.s), FirstByteAt + 1 + SysexLength))

EndsWithF7(payload) == payload # <<>> /\ payload[Len(payload)] = \hF7

\* C18: a sysex event begun by F0 whose payload, of the declared length,
\* does not end with F7 is an error, returned as an error; so is the
\* payload of declared length 0.
C18_SysexTerminator ==
    (IsSysexStep /\ ~(Len(SysexPayload) = SysexLength /\ EndsWithF7(SysexPayload)))
        => (step.e \notin {Nil, Panic} /\ step.msg = NoMessage)

\* C19: the SystemExclusiveMessage decoded from F0, a length and a payload
\* that ends with F7 holds the payload without that F7, and its SMFData is
\* the bytes it was decoded from.
C19_SysexPayload ==
    (IsSysexStep /\ step.e = Nil) =>
        /\ step.msg.type = "SystemExclusive"
        /\ step.msg.DataBytes = SubSeq(SysexPayload, 1, Len(SysexPayload) - 1)
        /\ SMFData(step.msg, 0).bytes
              = <<\hF0, SysexLength>> \o SysexPayload

\* The type of the channel message whose status byte has the high nibble
\* kind.
TypeOfKind(kind) ==
    CASE kind = \h80 -> "NoteOff"
      [] kind = \h90 -> "NoteOn"
      [] kind = \hA0 -> "Aftertouch"
      [] kind = \hB0 -> "ControlChange"
      [] kind = \hC0 -> "ProgramChange"
      [] kind = \hD0 -> "ChannelPressure"
      [] kind = \hE0 -> "PitchBend"

\* The data fields of a channel message in the order of its data bytes.
DataFields(m) ==
    CASE m.type \in {"NoteOff", "NoteOn"} -> <<m.Note, m.Velocity>>
      [] m.type = "Aftertouch" -> <<m.Note, m.Pressure>>
      [] m.type = "ControlChange" -> <<m.ControllerNumber, m.Value>>
      [] m.type \in {"ProgramChange", "ChannelPressure"} -> <<m.Value>>
      [] m.type = "PitchBend" -> <<m.Value % 128, m.Value \div 128>>

\* The last turn read a message that began with a data byte while the
\* running status was a channel status.
IsRunningStep ==
    IsReadStep /\ step.firstByte \in 0..127 /\ step.rsBefore >= \h80

\* C20: a message that begins with a data byte under the running status S
\* is the message of S's kind on S's channel with that byte as its first
\* data field; one more byte is read for the kinds with two data bytes
\* and none for ProgramChange and ChannelPressure; the running status is
\* still S afterwards.  It fails only when that second byte is missing
\* or is no data byte.
C20_RunningStatusDecode ==
    IsRunningStep =>
      LET kind == step.rsBefore - (step.rsBefore % 16)
          more == IF kind \in {\hC0, \hD0} THEN 0 ELSE 1
      IN  IF step.e = Nil
          THEN /\ step.msg.type = TypeOfKind(kind)
               /\ step.msg.Channel = step.rsBefore % 16
               /\ DataFields(step.msg)
                     = SubSeq(r.s, FirstByteAt, FirstByteAt + more)
               /\ DataFields(step.msg)[1] = step.firstByte
               /\ r.i = FirstByteAt + more
               /\ trk.runningStatus = step.rsBefore
          ELSE /\ more = 1
               /\ \/ step.left = 0
                  \/ FirstByteAt + 1 > Len(r.s)
                  \/ r.s[FirstByteAt + 1] >= 128

C20_Witness ==
    /\ IsRunningStep /\ step.rsBefore = \hCF /\ step.firstByte = \h7F
    /\ step.msg = [type |-> "ProgramChange", Channel |-> 15, Value |-> 127]
    /\ trk.runningStatus = \hCF
    /\ r.i = Len(r.s) - 1

(***************************************************************************)
(* Further claims about the VarInt codec (checked under SpecVarInt).       *)
(***************************************************************************)
\* The bytes that the last call of WriteVariableInt added to the output.
BytesAdded == SubSeq(output, Len(last.before) + 1, Len(output))

\* The least number of 7-bit groups that hold n.
GroupCount(n) ==
    IF n < 128 THEN 1 ELSE IF n < 16384 THEN 2 ELSE IF n < 2097152 THEN 3 ELSE 4

\* C21: WriteVariableInt adds to the output the least number of 7-bit
\* groups of n, the most significant first, with the high bit set on all
\* bytes but the last; for 0 that is the single byte 00.
C21_MinimalGroups ==
    (IsWrite /\ last.e = Nil) =>
        /\ SubSeq(output, 1, Len(last.before)) = last.before
        /\ Len(BytesAdded) = GroupCount(last.n)
        /\ \A j \in 1..GroupCount(last.n) :
              BytesAdded[j] =
                  ((last.n \div (128 ^ (GroupCount(last.n) - j))) % 128)
                  + (IF j < GroupCount(last.n) THEN 128 ELSE 0)

C21_Witness ==
    /\ IsWrite /\ last.e = Nil /\ last.n = \h4000
    /\ last.before = <<0>>
    /\ output = <<\h00, \h81, \h80, \h00>>

(***************************************************************************)
(* Further claims about the file codec.                                    *)
(***************************************************************************)
\* C22: SMFData of a SetTempo event returns the bytes FF 51 03 and the
\* value as three bytes, most significant first, for every value up to
\* 0xFFFFFF, and an error for every larger value.
C22_SetTempoRange ==
    (IsWriteStep /\ step.msg.type = "SetTempo") =>
        /\ (step.e = Nil) <=> (step.msg.t <= 16777215)
        /\ (step.e = Nil) =>
              step.bytes = <<255, 81, 3, step.msg.t \div 65536,
                             (step.msg.t \div 256) % 256, step.msg.t % 256>>

\* The last turn read a meta event whose type byte and one-byte length are
\* in the input.
IsMetaStep ==
    /\ IsReadStep /\ step.firstByte = \hFF
    /\ FirstByteAt + 2 <= Len(r.s)
    /\ r.s[FirstByteAt + 2] < 128

MetaType == r.s[FirstByteAt + 1]
MetaLength == r.s[FirstByteAt + 2]

\* The offset of the last byte of the chunk that is in the input.
ChunkLimit == Min(Len(r.s), r.i + step.left)
MetaPayloadPresent == FirstByteAt + 2 + MetaLength <= ChunkLimit
MetaPayload == SubSeq(r.s, FirstByteAt + 3, FirstByteAt + 2 + MetaLength)

FixedLengthTypes == {\h00, \h20, \h2F, \h58, \h59}
FixedLength(t) ==
    CASE t = \h00 -> 2 [] t = \h20 -> 1 [] t = \h2F -> 0
      [] t = \h58 -> 4 [] t = \h59 -> 2
KnownTypes == FixedLengthTypes \cup (1..15) \cup {\h51, \h54}

C24_ErrorLocation ==
    (pc = "parse_failed" /\ IsReadStep) =>
        /\ err.track = step.track
        /\ err.event = step.index

\* C25: parseSMFTrack never consumes a byte beyond the 8 bytes of its chunk
\* header and the declared length: while track ti is decoded, and when its
\* decoding fails, the reader stands at or before the end of chunk ti; and
\* when the track is returned the reader stands exactly at the end of the
\* chunk (the end of the input when the input is shorter), where the next
\* track begins.
C25_ChunkBoundary ==
    /\ (pc \in {"event", "parse_failed", "panic"} /\ header # NoHeader)
          => r.i <= ChunksEnd(14, ti + 1)
    /\ IsEndStep
          => /\ r.i = ChunksEnd(14, step.track + 1)
             /\ ti = step.track + 1
    /\ pc = "track" => r.i = ChunksEnd(14, ti)

C25_Witness ==
    /\ IsEndStep /\ pc = "track" /\ ti = 1
    /\ Len(smf.Tracks[1].Messages) = 2
    /\ r.i = 14 + 8 + BE32(SubSeq(r.s, 19, 22))
    /\ r.i < Len(r.s)

\* The four bytes at the start of chunk k (from 0) of the input.
TagAt(k) == SubSeq(r.s, ChunksEnd(14, k) + 1, ChunksEnd(14, k) + 4)

\* C26: a chunk that stands where a track is expected and whose 4-byte
\* tag is not 'MTrk' is an error: parseSMFTrack returns it after reading
\* the tag alone, neither the length nor the content, and no file is
\* returned; the chunk is not skipped.
C26_BadChunkType ==
    ( /\ header # NoHeader /\ ti < header.TrackCount
      /\ pc \notin {"start", "track"}
      /\ ChunksEnd(14, ti) + 4 <= Len(r.s)
      /\ TagAt(ti) # <<77, 84, 114, 107>> )
    => /\ pc = "parse_failed"
       /\ err.cause = "Bad chunk type for track"
       /\ err.track = ti
       /\ r.i = ChunksEnd(14, ti) + 4
       /\ smf = NoFile

C26_Witness ==
    /\ pc = "parse_failed" /\ ti = 1
    /\ err.cause = "Bad chunk type for track"
    /\ TagAt(1) = <<88, 70, 73, 72>>
    /\ r.i = ChunksEnd(14, 1) + 4
    /\ SubSeq(r.s, r.i + 1, r.i + 4) = <<0, 0, 0, 4>>
    /\ SubSeq(r.s, r.i + 9, r.i + 12) = <<77, 84, 114, 107>>

\* A track in memory can be encoded whole.
TrackEncodes(t) ==
    /\ Len(t.Messages) = Len(t.TimeDeltas)
    /\ \A k \in 1..Len(t.TimeDeltas) :
          /\ t.TimeDeltas[k] <= 268435455
          /\ SMFData(t.Messages[k], 0).e = Nil

FailedTrack == pc = "write_failed" /\ err.what = "Failed writing SMF track"

\* C27: SMFTrack.WriteToFile writes nothing unless the whole track can be
\* encoded: with more or fewer messages than time deltas, a time delta
\* above 0x0FFFFFFF or a message that fails validation it returns an error
\* and the output is what it was before the call; when it succeeds it has
\* written 'MTrk', then a 4-byte length that is the number of content
\* bytes, then the content.
C27_WholeTrackOrNothing ==
    /\ FailedTrack =>
          /\ ~TrackEncodes(smf.Tracks[err.track + 1])
          /\ \A k \in 1..err.track : TrackEncodes(smf.Tracks[k])
          /\ output = ExpectedHeader \o ChunksWritten(err.track)
    /\ pc \in {"write_track", "write_event"} =>
          /\ \A k \in 1..ti : TrackEncodes(smf.Tracks[k])
          /\ Len(output) = Len(ExpectedHeader \o ChunksWritten(ti))
    /\ (pc = "written" /\ Len(smf.Tracks) <= MaxTracks) =>
          \A k \in 1..Len(smf.Tracks) : TrackEncodes(smf.Tracks[k])
    /\ (pc \in {"write_track", "written"} /\ ti >= 1) =>
          LET n == Len(ContentFrom(smf.Tracks[ti], NoWriteLocals))
              o == Len(output) - n - 8
          IN  /\ o >= 14
              /\ SubSeq(output, o + 1, o + 4) = <<77, 84, 114, 107>>
              /\ ((output[o + 5] * 256 + output[o + 6]) * 256
                     + output[o + 7]) * 256 + output[o + 8] = n
              /\ SubSeq(output, o + 9, Len(output))
                     = ContentFrom(smf.Tracks[ti], NoWriteLocals)

C27_Witness ==
    /\ FailedTrack /\ err.track = 1 /\ err.event = 1
    /\ err.cause = "Couldn't write time delta"
    /\ output = <<77, 84, 104, 100, 0, 0, 0, 6, 0, 1, 0, 2, 0, 96,
                  77, 84, 114, 107, 0, 0, 0, 5, 129, 0, 144, 60, 64>>

\* C28: a meta event or a sysex event whose declared payload length is
\* larger than the number of bytes that remain in the chunk is an error:
\* no message is returned whose payload holds bytes that are not in the
\* chunk.
C28_PayloadWithinChunk ==
    /\ (IsMetaStep /\ ~MetaPayloadPresent)
          => (step.e \notin {Nil, Panic} /\ step.msg = NoMessage)
    /\ (IsSysexStep /\ FirstByteAt + 1 + SysexLength > ChunkLimit)
          => (step.e \notin {Nil, Panic} /\ step.msg = NoMessage)

\* C29: decoding then encoding gives a canonical form: when a file that
\* ParseSMFFile accepts has been written by WriteToFile, the bytes written
\* are accepted by ParseSMFFile in their turn, and they decode to the
\* division, the time deltas and the messages that the first file decoded
\* to.
C29_CanonicalForm ==
    pc = "reparsed" =>
        /\ reparsed.running.e = Nil
        /\ reparsed.running.smf = smf

(***************************************************************************)
(* smf_tool: events are inserted into and deleted from a decoded file.     *)
(* A string is the sequence of the codes of its characters.                *)
(***************************************************************************)
\* The characters that the regular expression \s matches.
IsSpace(c) == c \in {9, 10, 12, 13, 32}
ToLower(c) == IF c >= 65 /\ c <= 90 THEN c + 32 ELSE c
IsHexChar(c) == (c >= 48 /\ c <= 57) \/ (c >= 97 /\ c <= 102)

\* hexCharToValue: the value of a lower-case hex character.
hexCharToValue(b) == IF b >= 48 /\ b <= 57 THEN b - 48 ELSE b - 97 + 10

\* hexStringToBytes: white space is removed, letters are lowered, and an
\* even number of hex characters becomes the bytes they spell.
Stripped(s) == SelectSeq(s, LAMBDA c : ~IsSpace(c))
Lowered(s) == [k \in 1..Len(s) |-> ToLower(s[k])]
BytesOfHex(t) ==
    IF Len(t) % 2 # 0 \/ \E k \in 1..Len(t) : ~IsHexChar(t[k])
    THEN [data |-> <<>>, e |-> "Invalid hex bytes string"]
    ELSE [data |-> [i \in 1..(Len(t) \div 2) |->
                      BitOr(hexCharToValue(t[2 * i]),
                            (hexCharToValue(t[2 * i - 1]) * 16) % 256)],
          e |-> Nil]
hexStringToBytes(s) == BytesOfHex(Lowered(Stripped(s)))

\* getNumberedTrack: tracks are numbered from 1.
getNumberedTrack(track, f) ==
    IF track <= 0 THEN [e |-> "Invalid track number", index |-> -1]
    ELSE IF track - 1 >= Len(f.Tracks)
    THEN [e |-> "Invalid track number", index |-> -1]
    ELSE [e |-> Nil, index |-> track - 1]

\* A variant that puts the new element after the one at position.
InsertedSliceMut(old, position, x, zero) ==
    [k \in 1..(Len(old) + 1) |->
        IF k <= position + 1 THEN old[k]
        ELSE IF k = position + 2 THEN x ELSE old[k - 1]]

\* The new slice of insertNewEvent: one element longer, the first
\* position+1 elements copied, the element of index position (from 0)
\* overwritten by the new one, the elements from position on copied behind.
InsertedSlice(old, position, x, zero) ==
    LET first == [k \in 1..(Len(old) + 1) |->
                    IF k <= position + 1 THEN old[k] ELSE zero]
        set == [first EXCEPT ![position + 1] = x]
    IN  [k \in 1..(Len(old) + 1) |->
            IF k >= position + 2 THEN old[k - 1] ELSE set[k]]

\* The slice of deleteSMFEvent: the elements behind index (from 0) moved
\* up by one, and the slice shortened by one.
DeletedSlice(old, index) ==
    [k \in 1..(Len(old) - 1) |-> IF k <= index THEN old[k] ELSE old[k + 1]]

ToolResult(f, e, delta, msg) == [smf |-> f, e |-> e, delta |-> delta, msg |-> msg]

\* insertNewEvent: the file after the call, and the error it returned.
insertNewEvent(hexData, track, position, f) ==
    LET With_t(t) ==
    IF t.e # Nil THEN ToolResult(f, t.e, 0, NoMessage)
    ELSE IF position < 0 \/ position >= Len(f.Tracks[t.index + 1].Messages)
    THEN ToolResult(f, "Invalid track position", 0, NoMessage)
    ELSE
      LET With_data(data) ==
      IF data.e # Nil THEN ToolResult(f, "Invalid new event data", 0, NoMessage)
      ELSE
        LET With_deltaTime(deltaTime) ==
        IF deltaTime.e # Nil
        THEN ToolResult(f, "Couldn't read new event's delta time", 0, NoMessage)
        ELSE
          LET With_event(event) ==
          IF event.e = Panic THEN ToolResult(f, Panic, deltaTime.val, NoMessage)
          ELSE IF event.e # Nil
          THEN ToolResult(f, "Couldn't parse new event", deltaTime.val, NoMessage)
          ELSE ToolResult(
                 [f EXCEPT !.Tracks[t.index + 1] =
                    [TimeDeltas |-> InsertedSlice(@.TimeDeltas, position,
                                                  deltaTime.val, 0),
                     Messages |-> InsertedSlice(@.Messages, position,
                                                event.msg, NoMessage)]],
                 Nil, deltaTime.val, event.msg)
          IN  With_event(ReadSMFMessage(deltaTime.r, 0))
        IN  With_deltaTime(ReadVariableInt(NewReader(data.data)))
      IN  With_data(hexStringToBytes(hexData))
    IN  With_t(getNumberedTrack(track, f))

\* deleteSMFEvent: events are numbered from 1.
deleteSMFEvent(track, position, f) ==
    LET With_t(t) ==
    IF t.e # Nil THEN ToolResult(f, t.e, 0, NoMessage)
    ELSE IF position - 1 < 0
            \/ position - 1 >= Len(f.Tracks[t.index + 1].Messages)
    THEN ToolResult(f, "Invalid event number for event to delete", 0, NoMessage)
    ELSE ToolResult(
           [f EXCEPT !.Tracks[t.index + 1] =
              [TimeDeltas |-> DeletedSlice(@.TimeDeltas, position - 1),
               Messages |-> DeletedSlice(@.Messages, position - 1)]],
           Nil, 0, NoMessage)
    IN  With_t(getNumberedTrack(track, f))

\* The largest number of events in the file that the tool works on.
MaxToolEvents == 3

RECURSIVE EventCount(_, _)
EventCount(f, k) ==
    IF k = 0 THEN 0 ELSE EventCount(f, k - 1) + Len(f.Tracks[k].Messages)

\* The strings given as -new_event.
NewEvents ==
    { <<48, 53, 32, 67, 48, 32, 48, 53>>,        \* "05 C0 05"
      <<48, 48, 9, 99, 48, 48, 101>>,            \* "00<tab>c00e"
      <<56, 49, 32, 48, 48, 32, 57, 48, 32, 51, 67, 32, 52, 48>>,
                                                 \* "81 00 90 3C 40"
      <<48, 53, 32, 71, 48>>,                    \* "05 G0": no hex
      <<>>,                                      \* "": no delta time
      <<48, 53, 32, 51, 67, 32, 52, 48>>,        \* "05 3C 40": no status
      <<48, 48, 32, 70, 48, 32, 48, 48, 32, 70, 55>> }
                                                 \* "00 F0 00 F7"

ToolTracks == 0..(MaxTracks + 1)
ToolPositions == (-1)..(MaxToolEvents + 1)

\* Track contents as decoded: text events, each with its own time delta.
TextTrack(base, n) ==
    TrackOfEvents([k \in 1..n |->
        Ev(base + k, [type |-> "Text", TextEventType |-> 1,
                      Data |-> <<base + k>>])])

ToolFiles ==
    { [Division |-> \h60, Tracks |-> ts] :
        ts \in { <<TextTrack(10, n)>> : n \in 0..MaxToolEvents }
               \cup { <<TextTrack(10, n), TextTrack(20, m)>> :
                        n \in 0..1, m \in 0..1 } }

\* run: the file has been decoded; -delete_event and -new_event change it.
InsertNewEvent ==
    /\ pc = "tool"
    /\ EventCount(smf, Len(smf.Tracks)) < MaxToolEvents
    /\ \E hexData \in NewEvents, track \in ToolTracks, position \in ToolPositions :
        LET Step(res) ==
            /\ smf' = res.smf
            /\ step' = [NoStep EXCEPT !.op = "insert", !.track = track,
                                      !.position = position, !.e = res.e,
                                      !.bytes = hexData, !.delta = res.delta,
                                      !.msg = res.msg, !.before = smf]
            /\ pc' = IF res.e = Panic THEN "panic" ELSE "tool"
        IN  Step(insertNewEvent(hexData, track, position, smf))
    /\ UNCHANGED <<r, output, header, ti, trk, enc, err, canon, reparsed,
                   varintVars>>

DeleteSMFEvent ==
    /\ pc = "tool"
    /\ \E track \in ToolTracks, position \in ToolPositions :
        LET Step(res) ==
            /\ smf' = res.smf
            /\ step' = [NoStep EXCEPT !.op = "delete", !.track = track,
                                      !.position = position, !.e = res.e,
                                      !.before = smf]
        IN  Step(deleteSMFEvent(track, position, smf))
    /\ UNCHANGED <<pc, r, output, header, ti, trk, enc, err, canon, reparsed,
                   varintVars>>

InitTool ==
    /\ pc = "tool"
    /\ r = NewReader(<<>>)
    /\ output = <<>>
    /\ smf \in ToolFiles
    /\ header = NoHeader
    /\ ti = 0
    /\ trk = NoTrackLocals
    /\ enc = NoWriteLocals
    /\ step = NoStep
    /\ err = NoError
    /\ canon = TRUE
    /\ reparsed = <<>>
    /\ VarIntIdle

NextTool ==
    \/ InsertNewEvent
    \/ DeleteSMFEvent

SpecTool == InitTool /\ [][NextTool]_vars

\* The time delta that belongs to a message of the tracks and strings
\* above.
OwnDelta(m) ==
    CASE m.type = "Text" -> m.Data[1]
      [] m.type = "ProgramChange" -> IF m.Value = 14 THEN 0 ELSE m.Value
      [] m.type = "NoteOn" -> 128

IsToolStep == step.op \in {"insert", "delete"}
TrackBefore == step.before.Tracks[step.track]
TrackAfter == smf.Tracks[step.track]

\* C30: from a file whose tracks have as many messages as time deltas,
\* after any sequence of insertNewEvent and deleteSMFEvent calls every
\* track still has as many messages as time deltas, every message stands
\* with its own time delta, and the messages that were there at the start
\* are in their order. A call that succeeds with position p either puts the
\* new pair at index p (insert), the pairs from index p on moving back by
\* one, or removes the pair at index p-1 (delete), and changes nothing
\* else; a call that fails leaves the file as it was.
C30_InsertDelete ==
    /\ \A k \in 1..Len(smf.Tracks) :
          /\ Len(smf.Tracks[k].Messages) = Len(smf.Tracks[k].TimeDeltas)
          /\ \A j \in 1..Len(smf.Tracks[k].Messages) :
                /\ smf.Tracks[k].TimeDeltas[j] = OwnDelta(smf.Tracks[k].Messages[j])
                /\ smf.Tracks[k].Messages[j].type = "Text"
                      => smf.Tracks[k].Messages[j].Data[1] \div 10 = k
                /\ \A i \in 1..(j - 1) :
                      ( /\ smf.Tracks[k].Messages[i].type = "Text"
                        /\ smf.Tracks[k].Messages[j].type = "Text" )
                      => smf.Tracks[k].Messages[i].Data[1]
                            < smf.Tracks[k].Messages[j].Data[1]
    /\ (IsToolStep /\ step.e # Nil) => smf = step.before
    /\ (IsToolStep /\ step.e = Nil) =>
          /\ step.track \in 1..Len(step.before.Tracks)
          /\ smf = [step.before EXCEPT !.Tracks[step.track] = TrackAfter]
    /\ (step.op = "insert" /\ step.e = Nil) =>
          /\ step.position \in 0..(Len(TrackBefore.Messages) - 1)
          /\ TrackAfter.Messages[step.position + 1] = step.msg
          /\ TrackAfter.TimeDeltas[step.position + 1] = step.delta
          /\ step.delta = OwnDelta(step.msg)
          /\ TrackAfter.Messages =
                SubSeq(TrackBefore.Messages, 1, step.position)
                  \o <<step.msg>>
                  \o SubSeq(TrackBefore.Messages, step.position + 1,
                            Len(TrackBefore.Messages))
          /\ TrackAfter.TimeDeltas =
                SubSeq(TrackBefore.TimeDeltas, 1, step.position)
                  \o <<step.delta>>
                  \o SubSeq(TrackBefore.TimeDeltas, step.position + 1,
                            Len(TrackBefore.TimeDeltas))
    /\ (step.op = "delete" /\ step.e = Nil) =>
          /\ step.position \in 1..Len(TrackBefore.Messages)
          /\ TrackAfter.Messages =
                SubSeq(TrackBefore.Messages, 1, step.position - 1)
                  \o SubSeq(TrackBefore.Messages, step.position + 1,
                            Len(TrackBefore.Messages))
          /\ TrackAfter.TimeDeltas =
                SubSeq(TrackBefore.TimeDeltas, 1, step.position - 1)
                  \o SubSeq(TrackBefore.TimeDeltas, step.position + 1,
                            Len(TrackBefore.TimeDeltas))

\* "05 C0 05" is inserted at position 1 of the second track, which held one
\* inserted event and the text event 21.
C30_Witness ==
    /\ step.op = "insert" /\ step.e = Nil
    /\ step.track = 2 /\ step.position = 1
    /\ step.bytes = <<48, 53, 32, 67, 48, 32, 48, 53>>
    /\ TrackBefore.TimeDeltas = <<128, 21>>
    /\ TrackAfter.TimeDeltas = <<128, 5, 21>>
    /\ TrackAfter.Messages[2] = [type |-> "ProgramChange", Channel |-> 0, Value |-> 5]
    /\ TrackAfter.Messages[3] = [type |-> "Text", TextEventType |-> 1, Data |-> <<21>>]

====
